---------------------------- MODULE Spec2Model ----------------------------
(***************************************************************************)
(* A model of the activestorage-ocr server core: the preprocessing         *)
(* pipeline and its steps, the PDF image extractor, the PDF processing     *)
(* flow of the engines and the heuristic confidence scorer.                *)
(*                                                                         *)
(* Each component has its own specification (Spec for the pipeline,        *)
(* SpecConfidence, SpecResize, ...): the components share no state in the  *)
(* program, so each specification moves its own variables and leaves the   *)
(* others at their initial value.                                          *)
(***************************************************************************)
EXTENDS Integers, Sequences, FiniteSets, TLC

VARIABLES
    \* ---- Pipeline::process (preprocessing/pipeline.rs)
    now,          \* the monotonic clock (Instant::now), in ticks
    pl_pc,        \* position in process: "idle", the step about to run, "returned"
    pl_preset,    \* self.preset
    pl_input,     \* the image handed to process
    pl_img,       \* the local img
    pl_start,     \* the local start
    pl_timings,   \* the local steps_timing
    pl_invoked,   \* history: the step functions this process call has called, in
                  \* order, each with whether it returned Ok
    pl_result,    \* what process returned
    \* ---- calculate_confidence (engines/ocrs.rs)
    cf_text,      \* the text handed to calculate_confidence
    cf_score,     \* its result (an f32), or NoValue before the call
    \* ---- resize::apply (preprocessing/steps/resize.rs)
    rs_in,        \* the dimensions of the image handed to apply
    rs_out,       \* the dimensions of the image it returned, or NoValue
    \* ---- extract_images_from_pdf (engines/ocrs.rs)
    px_pc,        \* position: "idle", "load", "objects" (the loop), "done"
    px_doc,       \* what Document::load finds at the path
    px_checks,    \* whether the build checks integer overflow
    px_i,         \* the loop's position in doc.objects, from 1
    px_images,    \* the local images
    px_warned,    \* history: the positions of the objects a warning was logged for
    px_result,    \* what the call returned, or [kind |-> "panic"]
    \* ---- sauvola_threshold (preprocessing/steps/threshold.rs)
    th_pc,          \* position: "idle", "integral", "from_fn", "done"
    th_img,         \* the gray image handed in
    th_integral,    \* the local integral
    th_integral_sq, \* the local integral_sq
    th_stats,       \* history: what window_stats computed for each window
    th_out,         \* the image returned, as its samples, or NoValue
    \* ---- process_pdf (engines/ocrs.rs, engines/leptess.rs)
    pp_pc,          \* position: "idle", "start", "extract", "images", "done"
    pp_engine,      \* "ocrs" or "leptess"
    pp_direct,      \* history: what pdf_extract::extract_text returned
    pp_calls,       \* history: the calls made, in order
    pp_i,           \* the image the loop is at, from 1
    pp_all_text,    \* the local all_text
    pp_total,       \* leptess: total_confidence
    pp_count,       \* leptess: confidence_count
    pp_warnings,    \* the local warnings
    pp_recognised,  \* history: what process_dynamic_image returned per image
    pp_result,      \* what process_pdf returned, or NoValue
    \* ---- detect_skew_angle (preprocessing/steps/deskew.rs)
    dk_pc,            \* position: "idle", "coarse", "refine", "done", "returned"
    dk_img,           \* the gray image
    dk_angle,         \* the local angle, then refined_angle
    dk_best_angle,    \* the local best_angle, in degrees
    dk_best_variance, \* the local best_variance
    dk_tried,         \* history: the candidates tried with their variances
    dk_result,        \* the angle returned, in radians, or NoValue
    dk_out,           \* what deskew::apply returns, or NoValue
    \* ---- extract_image_from_stream on one stream (engines/ocrs.rs)
    ds_stream,      \* the image stream
    ds_checks,      \* the build has overflow checks
    ds_color_space, \* history: what get_color_space returned
    ds_result,      \* what the call returned, [kind |-> "panic"], or NoValue
    \* ---- normalize::apply (preprocessing/steps/normalize.rs)
    nz_pc,          \* position: "idle", "gray", "min_max", "branch", "done"
    nz_in,          \* the image handed in
    nz_gray,        \* the local gray
    nz_min_max,     \* the locals min_val, max_val
    nz_out,         \* the image returned, or NoValue
    \* ---- one server process and one request (server.rs, engines/mod.rs)
    sv_pc,           \* position: "idle", "start", "serving", "exited", "multipart",
                     \* "preset", "pdf", "image", "preprocess", "recognise", "responded"
    sv_env,          \* the build's engine features and the engines that initialise
    sv_registry,     \* what EngineRegistry::new returned, or NoValue
    sv_request,      \* the request handled, or NoValue
    sv_engine,       \* the name of the engine the handler selected, "" before
    sv_preset,       \* the local preset, "" before
    sv_preprocessed, \* the local preprocess_result, or NoValue
    sv_calls,        \* history: the calls made for the request
    sv_response,     \* the handler's result, or NoValue
    \* ---- OcrsEngine::new in two processes with one cache (engines/ocrs.rs)
    dl_fs,      \* the cache directory: for each model file whether it exists, and
                \* its blocks
    dl_proc     \* for each process its position ("exists", "request", "create",
                \* "read", "write", "load", "ready", "failed"), the model it is at,
                \* its file offset, the files it created, and as history the files
                \* it took as cached, the files it loaded, and its error

NoValue == [none |-> TRUE]

(***************************************************************************)
(* Bounds of the model.                                                    *)
(***************************************************************************)
\* the clock is read with sub-millisecond resolution; as_millis() truncates
TicksPerMs == 2
\* the longest a step runs, in ticks
MaxStepTicks == 2
\* the longest text scored, in characters
MaxTextLen == 5

(***************************************************************************)
(* f32 arithmetic, round-to-nearest-even, as the Rust code computes with   *)
(* it.  A non-negative f32 is [m, e] with value m * 2^e, m = 0 or          *)
(* 2^23 <= m < 2^24.  All the code's f32 values are non-negative, finite   *)
(* and normal.  TLC's integers are 32-bit, so the 48-bit products and the  *)
(* quotients are computed in limbs.                                        *)
(***************************************************************************)
\* the powers of two, 2^0 to 2^30
Pow2Table == <<1, 2, 4, 8, 16, 32, 64, 128, 256, 512, 1024, 2048, 4096, 8192, 16384, 32768,
               65536, 131072, 262144, 524288, 1048576, 2097152, 4194304, 8388608, 16777216, 33554432, 67108864, 134217728, 268435456, 536870912, 1073741824>>
Pow2[k \in 0..30] == Pow2Table[k + 1]

BitLen(m) == CHOOSE b \in 0..30 : (b = 0 \/ Pow2[b - 1] <= m) /\ (b = 30 \/ m < Pow2[b])

F32Zero == [m |-> 0, e |-> 0]

\* the 24-bit quotient q with remainder r (of a division by 2 * half) rounded
\* to nearest, ties to even; a carry out of the 24 bits moves the exponent
F32Nearest(q, r, half, e, sticky) ==
    IF r > half \/ (r = half /\ (sticky \/ q % 2 = 1))
    THEN IF q + 1 = Pow2[24] THEN [m |-> Pow2[23], e |-> e + 1] ELSE [m |-> q + 1, e |-> e]
    ELSE [m |-> q, e |-> e]

\* m of b bits, m * 2^e
F32Normal(m, e, sticky, b) ==
    IF b <= 24 THEN [m |-> m * Pow2[24 - b], e |-> e - (24 - b)]
    ELSE F32Nearest(m \div Pow2[b - 24], m % Pow2[b - 24], Pow2[b - 25], e + (b - 24), sticky)

\* m * 2^e (plus a non-zero part below m's last bit when sticky) rounded to f32.
\* m < 2^30; when sticky, m has at least 26 bits.
F32Round(m, e, sticky) == IF m = 0 THEN F32Zero ELSE F32Normal(m, e, sticky, BitLen(m))

\* `n as f32` for an unsigned integer n < 2^30
F32FromInt(n) == F32Round(n, 0, FALSE)

F32Mul(a, b) ==
    IF a.m = 0 \/ b.m = 0 THEN F32Zero
    ELSE LET a1  == a.m \div 4096
             a0  == a.m % 4096
             b1  == b.m \div 4096
             b0  == b.m % 4096
             mid == a1 * b0 + a0 * b1
             lo0 == (mid % 4096) * 4096 + a0 * b0
             hi  == a1 * b1 + (mid \div 4096) + (lo0 \div Pow2[24])
             lo  == lo0 % Pow2[24]
         IN F32Round(hi * 64 + (lo \div Pow2[18]), a.e + b.e + 18, lo % Pow2[18] # 0)

\* b # 0 (the code divides by a count or a dimension it has checked, or the
\* operands are constants)
F32Div(a, b) ==
    IF a.m = 0 THEN F32Zero
    ELSE LET q0 == a.m \div b.m
             r0 == a.m % b.m
             q1 == (r0 * 128) \div b.m
             r1 == (r0 * 128) % b.m
             q2 == (r1 * 128) \div b.m
             r2 == (r1 * 128) % b.m
             q3 == (r2 * 64) \div b.m
             r3 == (r2 * 64) % b.m
             q4 == (r3 * 64) \div b.m
             r4 == (r3 * 64) % b.m
             q  == (((q0 * 128 + q1) * 128 + q2) * 64 + q3) * 64 + q4
         IN F32Round(q, a.e - b.e - 26, r4 # 0)

F32Lt(a, b) ==
    IF b.m = 0 THEN FALSE
    ELSE IF a.m = 0 THEN TRUE
    ELSE a.e < b.e \/ (a.e = b.e /\ a.m < b.m)

F32Le(a, b) == ~F32Lt(b, a)

F32Min(a, b) == IF F32Lt(b, a) THEN b ELSE a

F32AddOrdered(a, b) ==   \* a.e >= b.e, both non-zero
    LET d  == a.e - b.e
        A  == a.m * 32
        B0 == b.m * 32
        B  == IF d >= 30 THEN 0 ELSE B0 \div Pow2[d]
        st == IF d >= 30 THEN TRUE ELSE B0 % Pow2[d] # 0
    IN F32Round(A + B, a.e - 5, st)

F32Add(a, b) ==
    IF a.m = 0 THEN b
    ELSE IF b.m = 0 THEN a
    ELSE IF a.e >= b.e THEN F32AddOrdered(a, b) ELSE F32AddOrdered(b, a)

\* a - b for a >= b
F32Sub(a, b) ==
    IF b.m = 0 THEN a
    ELSE LET d  == a.e - b.e
             A  == a.m * 32
             B0 == b.m * 32
             B  == IF d >= 30 THEN 0 ELSE B0 \div Pow2[d]
             st == IF d >= 30 THEN TRUE ELSE B0 % Pow2[d] # 0
         IN IF st THEN F32Round(A - B - 1, a.e - 5, TRUE)
            ELSE F32Round(A - B, a.e - 5, FALSE)

\* `x as u32`, `x as usize`: truncation (no value of the model saturates)
F32Trunc(a) ==
    IF a.m = 0 THEN 0
    ELSE IF a.e >= 0 THEN a.m * Pow2[a.e]
    ELSE IF -a.e > 30 THEN 0
    ELSE a.m \div Pow2[-a.e]

\* the f32 literal n/d written in decimal in the source (n, d < 2^24):
\* the f32 nearest to the real n/d
F32Lit(n, d) == F32Div(F32FromInt(n), F32FromInt(d))

F32One == F32FromInt(1)

(***************************************************************************)
(* The resize step (preprocessing/steps/resize.rs).                        *)
(***************************************************************************)
TARGET_DPI == 300
ASSUMED_INPUT_DPI == 72
MAX_DIMENSION == 4000
MIN_DIMENSION == 300

Max(a, b) == IF a >= b THEN a ELSE b
Min(a, b) == IF a <= b THEN a ELSE b

\* (n as f32 * s) as u32
ScaleDim(n, s) == F32Trunc(F32Mul(F32FromInt(n), s))

\* (0.95..=5.0).contains(&ratio)
Within5Percent_UpTo5(ratio) == F32Le(F32Lit(95, 100), ratio) /\ F32Le(ratio, F32FromInt(5))

\* (0.95..=1.05).contains(&ratio)
Within5Percent(ratio) == F32Le(F32Lit(95, 100), ratio) /\ F32Le(ratio, F32Lit(105, 100))

\* apply, lines 40-45: the resize to new_width x new_height is skipped when
\* both ratios are within 5% of 1
ResizeDecision(width, height, new_width, new_height) ==
    [new_width |-> new_width, new_height |-> new_height,
     skip |-> /\ Within5Percent(F32Div(F32FromInt(new_width), F32FromInt(width)))
              /\ Within5Percent(F32Div(F32FromInt(new_height), F32FromInt(height)))]

\* MIN_DIMENSION as f32 / min_dim as f32
ScaleUp(min_dim) == F32Div(F32FromInt(MIN_DIMENSION), F32FromInt(min_dim))

\* apply, lines 32-38: ensure the minimum dimension
ResizeEnsureMin(width, height, new_width, new_height) ==
    IF new_width < MIN_DIMENSION /\ new_height < MIN_DIMENSION
    THEN ResizeDecision(width, height,
                        ScaleDim(new_width, ScaleUp(Min(new_width, new_height))),
                        ScaleDim(new_height, ScaleUp(Min(new_width, new_height))))
    ELSE ResizeDecision(width, height, new_width, new_height)

\* MAX_DIMENSION as f32 / max_dim as f32
ScaleDown(max_dim) == F32Div(F32FromInt(MAX_DIMENSION), F32FromInt(max_dim))

\* apply, lines 24-30: clamp to the maximum dimension
ResizeClampMax(width, height, new_width, new_height) ==
    IF new_width > MAX_DIMENSION \/ new_height > MAX_DIMENSION
    THEN ResizeEnsureMin(width, height,
                         ScaleDim(new_width, ScaleDown(Max(new_width, new_height))),
                         ScaleDim(new_height, ScaleDown(Max(new_width, new_height))))
    ELSE ResizeEnsureMin(width, height, new_width, new_height)

\* TARGET_DPI as f32 / ASSUMED_INPUT_DPI as f32
DpiScale == F32Div(F32FromInt(TARGET_DPI), F32FromInt(ASSUMED_INPUT_DPI))

\* apply, lines 16-45: the target dimensions and whether the resize is skipped.
\* width, height >= 1 (a decoded image has no empty side).
ResizeTarget(width, height) ==
    ResizeClampMax(width, height, ScaleDim(width, DpiScale), ScaleDim(height, DpiScale))

\* f64::round of the f64 product behind p/q: the nearest integer; when p/q is
\* exactly halfway the f64 product lies on either side of the half, so either
\* neighbour can come out
RoundDiv(p, q) ==
    IF (2 * p) % (2 * q) = q THEN {p \div q, p \div q + 1}
    ELSE {(2 * p + q) \div (2 * q)}

\* DynamicImage::resize(nwidth, nheight, _) of the image crate: the largest
\* size of the image's aspect ratio that fits in nwidth x nheight, no side
\* below 1.  The set of the dimensions it can return.
LibResizeDimensions(width, height, nwidth, nheight) ==
    IF nwidth * height <= nheight * width
    THEN {<<Max(nwidth, 1), Max(nh, 1)>> : nh \in RoundDiv(height * nwidth, width)}
    ELSE {<<Max(nw, 1), Max(nheight, 1)>> : nw \in RoundDiv(width * nheight, height)}

\* apply, lines 43-47: the dimensions the returned image can have
ResizeOutcome(width, height, t) ==
    IF t.skip THEN {<<width, height>>}
    ELSE LibResizeDimensions(width, height, t.new_width, t.new_height)

ResizeDims(width, height) == ResizeOutcome(width, height, ResizeTarget(width, height))

(***************************************************************************)
(* Images as the pipeline sees them: the dimensions, the channel count     *)
(* (1 = Luma8, 3 = Rgb8) and the samples.  The samples are kept as a term: *)
(* src names the samples handed in, ops lists the pixel transforms applied *)
(* to them, in order.                                                      *)
(***************************************************************************)
InputDims == {<<1, 71>>, <<100, 100>>, <<4100, 4100>>}

InputImages ==
    {[width |-> d[1], height |-> d[2], channels |-> c, src |-> "input", ops |-> <<>>] :
        d \in InputDims, c \in {1, 3}}

\* DynamicImage::to_luma8: a Luma8 image is copied, any other is converted
ToLuma8(img) ==
    IF img.channels = 1 THEN img
    ELSE [img EXCEPT !.channels = 1, !.ops = Append(@, "to_luma8")]

\* a transform of the Luma8 samples that keeps the dimensions
LumaTransform(img, op) == [ToLuma8(img) EXCEPT !.ops = Append(@, op)]

\* steps::grayscale::apply
GrayscaleApply(img) == {ToLuma8(img)}

\* steps::resize::apply: the input itself when the resize is skipped
ResizeImage(img, t) ==
    IF t.skip THEN {img}
    ELSE {[img EXCEPT !.width = d[1], !.height = d[2], !.ops = Append(@, "resize")] :
            d \in ResizeOutcome(img.width, img.height, t)}

ResizeApply(img) == ResizeImage(img, ResizeTarget(img.width, img.height))

\* steps::denoise::apply
DenoiseApply(img) == {LumaTransform(img, "median_filter")}

\* steps::normalize::apply
NormalizeApply(img) == {LumaTransform(img, "normalize")}

\* steps::sharpen::apply
SharpenApply(img) == {LumaTransform(img, "filter3x3")}

\* a deskew whose rotation grows the canvas to hold the rotated corners
DeskewApply_Expanding(img) ==
    {ToLuma8(img),
     [LumaTransform(img, "rotate_about_center") EXCEPT !.width = @ + 1, !.height = @ + 1]}

\* steps::deskew::apply: the grayscale image itself when the detected angle is
\* under 0.1 degrees, else rotate_about_center's output, which has the
\* dimensions of its input
DeskewApply(img) == {ToLuma8(img), LumaTransform(img, "rotate_about_center")}

\* steps::threshold::apply
ThresholdApply(img) == {LumaTransform(img, "sauvola_threshold")}

\* the images steps::<name>::apply can return for img
StepApply(name, img) ==
    CASE name = "grayscale" -> GrayscaleApply(img)
      [] name = "resize"    -> ResizeApply(img)
      [] name = "denoise"   -> DenoiseApply(img)
      [] name = "normalize" -> NormalizeApply(img)
      [] name = "sharpen"   -> SharpenApply(img)
      [] name = "deskew"    -> DeskewApply(img)
      [] name = "threshold" -> ThresholdApply(img)

\* step functions of which resize has an error return
StepFnResults_ResizeFails(name) == IF name = "resize" THEN BOOLEAN ELSE {TRUE}

\* whether steps::<name>::apply can return Ok / Err: every apply ends in Ok(..)
\* and has no other return
StepFnResults(name) == {TRUE}

(***************************************************************************)
(* Pipeline::process (preprocessing/pipeline.rs).                          *)
(***************************************************************************)
Presets == {"None", "Minimal", "Default", "Aggressive"}

\* Preset::as_str
PresetAsStr(p) ==
    CASE p = "None"       -> "none"
      [] p = "Minimal"    -> "minimal"
      [] p = "Default"    -> "default"
      [] p = "Aggressive" -> "aggressive"

\* a conversion to milliseconds that rounds to the nearest
AsMillis_Rounded(ticks) == (2 * ticks + TicksPerMs) \div (2 * TicksPerMs)

\* Duration::as_millis() as u64 of a span of ticks
AsMillis(ticks) == ticks \div TicksPerMs

plVars == <<now, pl_pc, pl_preset, pl_input, pl_img, pl_start, pl_timings,
            pl_invoked, pl_result>>

PipelineInit ==
    /\ now = 0
    /\ pl_pc = "idle"
    /\ pl_preset \in Presets
    /\ pl_input \in InputImages
    /\ pl_img = NoValue
    /\ pl_start = 0
    /\ pl_timings = <<>>
    /\ pl_invoked = <<>>
    /\ pl_result = NoValue

\* ProcessCall without the early return of lines 84-91
ProcessCall_NoEarlyReturn ==
    /\ pl_pc = "idle"
    /\ pl_start' = now
    /\ pl_timings' = <<>>
    /\ pl_img' = pl_input
    /\ pl_pc' = "grayscale"
    /\ UNCHANGED <<now, pl_preset, pl_input, pl_invoked, pl_result>>

\* process, lines 80-93: the call, up to the first run_step
ProcessCall ==
    /\ pl_pc = "idle"
    /\ pl_start' = now
    /\ pl_timings' = <<>>
    /\ IF pl_preset = "None"
       THEN /\ pl_result' = [kind |-> "ok", image |-> pl_input, total_time_ms |-> 0,
                             preset |-> "none", steps |-> <<>>]
            /\ pl_pc' = "returned"
            /\ pl_img' = pl_img
       ELSE /\ pl_img' = pl_input
            /\ pl_pc' = "grayscale"
            /\ pl_result' = pl_result
    /\ UNCHANGED <<now, pl_preset, pl_input, pl_invoked>>

\* RunStep without the ? operator: a failed step is timed like any other and
\* process goes on with the image it had
RunStep_NoPropagation(name, next, results) ==
    /\ pl_pc = name
    /\ \E elapsed \in 0..MaxStepTicks, ok \in results :
         /\ now' = now + elapsed
         /\ pl_invoked' = Append(pl_invoked, [step |-> name, ok |-> ok])
         /\ IF ok THEN \E out \in StepApply(name, pl_img) : pl_img' = out
                  ELSE pl_img' = pl_img
         /\ pl_timings' = Append(pl_timings, [name |-> name, time_ms |-> AsMillis(elapsed)])
         /\ pl_pc' = next
         /\ pl_result' = pl_result
    /\ UNCHANGED <<pl_preset, pl_input, pl_start>>

\* run_step(name, img, &mut steps_timing, step_fn)? at one of process's call
\* sites: step_fn runs for some time and returns Ok or Err (results: which of
\* the two it can return); on Ok the timing is pushed and process goes on at
\* next, on Err the ? operator returns the error from process
RunStep(name, next, results) ==
    /\ pl_pc = name
    /\ \E elapsed \in 0..MaxStepTicks, ok \in results :
         /\ now' = now + elapsed
         /\ pl_invoked' = Append(pl_invoked, [step |-> name, ok |-> ok])
         /\ IF ok
            THEN /\ \E out \in StepApply(name, pl_img) : pl_img' = out
                 /\ pl_timings' = Append(pl_timings,
                                         [name |-> name, time_ms |-> AsMillis(elapsed)])
                 /\ pl_pc' = next
                 /\ pl_result' = pl_result
            ELSE /\ pl_result' = [kind |-> "err", step |-> name]
                 /\ pl_pc' = "returned"
                 /\ UNCHANGED <<pl_img, pl_timings>>
    /\ UNCHANGED <<pl_preset, pl_input, pl_start>>

\* process, lines 96-125: where process goes after each step
AfterResize_NoDenoise == "normalize"
AfterGrayscale == IF pl_preset = "Minimal" THEN "return_minimal" ELSE "resize"
AfterResize    == IF pl_preset = "Aggressive" THEN "denoise" ELSE "normalize"
AfterSharpen   == IF pl_preset = "Aggressive" THEN "deskew" ELSE "return"

\* the Ok(PreprocessingResult {..}) of lines 99-104 (preset: "minimal") and of
\* lines 127-132 (preset: self.preset.as_str()); start.elapsed() is read
\* when the result is built
ProcessReturn(at, preset) ==
    /\ pl_pc = at
    /\ \E gap \in 0..1 :
         /\ now' = now + gap
         /\ pl_result' = [kind |-> "ok", image |-> pl_img,
                          total_time_ms |-> AsMillis(now' - pl_start),
                          preset |-> preset, steps |-> pl_timings]
    /\ pl_pc' = "returned"
    /\ UNCHANGED <<pl_preset, pl_input, pl_img, pl_start, pl_timings, pl_invoked>>

ReturnMinimal == ProcessReturn("return_minimal", "minimal")
ReturnFinal   == ProcessReturn("return", PresetAsStr(pl_preset))

\* process's seven run_step call sites, with the step functions of steps/
Step_grayscale == RunStep("grayscale", AfterGrayscale, StepFnResults("grayscale"))
Step_resize == RunStep("resize", AfterResize, StepFnResults("resize"))
Step_denoise == RunStep("denoise", "normalize", StepFnResults("denoise"))
Step_normalize == RunStep("normalize", "sharpen", StepFnResults("normalize"))
Step_sharpen == RunStep("sharpen", AfterSharpen, StepFnResults("sharpen"))
Step_deskew == RunStep("deskew", "threshold", StepFnResults("deskew"))
Step_threshold == RunStep("threshold", "return", StepFnResults("threshold"))

\* the same call sites with any step function of run_step's type
\* F: FnOnce(DynamicImage) -> Result<DynamicImage, OcrError>
AnyStep_grayscale == RunStep("grayscale", AfterGrayscale, BOOLEAN)
AnyStep_resize == RunStep("resize", AfterResize, BOOLEAN)
AnyStep_denoise == RunStep("denoise", "normalize", BOOLEAN)
AnyStep_normalize == RunStep("normalize", "sharpen", BOOLEAN)
AnyStep_sharpen == RunStep("sharpen", AfterSharpen, BOOLEAN)
AnyStep_deskew == RunStep("deskew", "threshold", BOOLEAN)
AnyStep_threshold == RunStep("threshold", "return", BOOLEAN)

(***************************************************************************)
(* The confidence scorer (engines/ocrs.rs).  A text is a sequence of       *)
(* characters; a character is written as a one-character string.           *)
(***************************************************************************)
\* the f32 literals of the scorer
F32_0_15 == F32Lit(15, 100)
F32_0_20 == F32Lit(2, 10)
F32_0_30 == F32Lit(3, 10)
F32_0_40 == F32Lit(4, 10)
F32_0_50 == F32Lit(5, 10)
F32_0_60 == F32Lit(6, 10)
F32_0_70 == F32Lit(7, 10)
F32_0_80 == F32Lit(8, 10)
F32_1_50 == F32Lit(15, 10)

AsciiLetters == {"a", "b", "c", "d", "e", "g", "h", "i", "j", "k", "l", "o", "p",
                 "r", "s", "t", "H", "T", "W"}
Digits       == {"7"}
AsciiPunct   == {".", "#"}
AsciiSpace   == {" ", "\n"}
\* U+00E9, a letter of two bytes in UTF-8
WideLetters  == {"U+00E9"}
\* U+00A7 and U+00B1, neither alphanumeric nor white space nor ASCII punctuation
WideSymbols  == {"U+00A7", "U+00B1"}
\* U+0001 and U+0002, control characters of one byte: neither alphanumeric
\* nor white space nor ASCII punctuation
ControlChars == {"U+0001", "U+0002"}

IsAlphabetic(c)       == c \in AsciiLetters \cup WideLetters     \* char::is_alphabetic
IsAlphanumeric(c)     == IsAlphabetic(c) \/ c \in Digits         \* char::is_alphanumeric
IsWhitespace(c)       == c \in AsciiSpace                        \* char::is_whitespace
IsAsciiPunctuation(c) == c \in AsciiPunct                        \* char::is_ascii_punctuation
\* the length of the character's UTF-8 encoding
Utf8Len(c) == IF c \in WideLetters \cup WideSymbols THEN 2 ELSE 1

\* str::len(): the length in bytes
RECURSIVE StrLen(_)
StrLen(text) == IF text = <<>> THEN 0 ELSE Utf8Len(Head(text)) + StrLen(Tail(text))

\* text.chars().filter(P).count()
CountChars(text, P(_)) == Cardinality({i \in 1..Len(text) : P(text[i])})

IsSpecial(c) == ~IsAlphanumeric(c) /\ ~IsWhitespace(c) /\ ~IsAsciiPunctuation(c)

\* n as f32 / d as f32
F32Ratio(n, d) == F32Div(F32FromInt(n), F32FromInt(d))

\* 1.0 - (ratio * factor).min(cap), cap <= 1.0
Penalty(ratio, factor, cap) == F32Sub(F32One, F32Min(F32Mul(ratio, factor), cap))

\* analyze_char_frequency
analyze_char_frequency(text) ==
    IF Len(text) = 0 THEN F32Zero
    ELSE F32Add(F32Mul(Penalty(F32Ratio(CountChars(text, IsSpecial), Len(text)),
                               F32FromInt(10), F32One),
                       F32_0_60),
                F32Mul(F32Min(F32Mul(F32Ratio(CountChars(text, IsAlphabetic), Len(text)),
                                     F32_1_50),
                              F32One),
                       F32_0_40))

\* text.split_whitespace(): the words are the maximal runs of characters that
\* are not white space; a word is given by the positions of its first and
\* last character
WordStarts(text) ==
    {i \in 1..Len(text) : ~IsWhitespace(text[i]) /\ (i = 1 \/ IsWhitespace(text[i - 1]))}
WordEnd(text, i) ==
    CHOOSE j \in i..Len(text) :
        /\ \A k \in i..j : ~IsWhitespace(text[k])
        /\ j = Len(text) \/ IsWhitespace(text[j + 1])
Words(text) == {<<i, WordEnd(text, i)>> : i \in WordStarts(text)}

\* w.len() of a word: its length in bytes
WordLen(text, w) == StrLen(SubSeq(text, w[1], w[2]))

RECURSIVE SumWordLen(_, _)
SumWordLen(text, ws) ==
    IF ws = {} THEN 0
    ELSE LET w == CHOOSE x \in ws : TRUE
         IN WordLen(text, w) + SumWordLen(text, ws \ {w})

\* the match on avg_len as usize
AvgLenScore(avg_len) ==
    IF avg_len <= 1 THEN F32_0_30
    ELSE IF avg_len <= 3 THEN F32_0_70
    ELSE IF avg_len <= 8 THEN F32One
    ELSE IF avg_len <= 12 THEN F32_0_80
    ELSE F32_0_40

WordScore(text, words) ==
    F32Mul(AvgLenScore(F32Trunc(F32Ratio(SumWordLen(text, words), Cardinality(words)))),
           Penalty(F32Ratio(Cardinality({w \in words : WordLen(text, w) = 1}),
                            Cardinality(words)),
                   F32_1_50, F32_0_50))

\* analyze_word_lengths
analyze_word_lengths(text) ==
    IF WordStarts(text) = {} THEN F32_0_50 ELSE WordScore(text, Words(text))

\* the match with the fourth arm 26..=39
WhitespaceScore_SparseFrom40(ratio) ==
    IF ratio <= 5 THEN F32_0_50
    ELSE IF ratio <= 10 THEN F32_0_80
    ELSE IF ratio <= 25 THEN F32One
    ELSE IF ratio <= 39 THEN F32_0_70
    ELSE F32_0_30

\* the match on ratio as usize
WhitespaceScore(ratio) ==
    IF ratio <= 5 THEN F32_0_50
    ELSE IF ratio <= 10 THEN F32_0_80
    ELSE IF ratio <= 25 THEN F32One
    ELSE IF ratio <= 40 THEN F32_0_70
    ELSE F32_0_30

\* analyze_whitespace
analyze_whitespace(text) ==
    IF Len(text) = 0 THEN F32Zero
    ELSE WhitespaceScore(F32Trunc(F32Mul(F32Ratio(CountChars(text, IsWhitespace), Len(text)),
                                         F32FromInt(100))))

\* detect_repetition's loop from position i on: the final max_repeat
RECURSIVE RepetitionScan(_, _, _, _)
RepetitionScan(text, i, current, max_repeat) ==
    IF i > Len(text) THEN max_repeat
    ELSE IF i > 1 /\ text[i] = text[i - 1] /\ ~IsWhitespace(text[i])
         THEN RepetitionScan(text, i + 1, current + 1, Max(max_repeat, current + 1))
         ELSE RepetitionScan(text, i + 1, 1, max_repeat)

\* the match with the first arm 1..=4
RepetitionScore_UpTo4(max_repeat) ==
    IF max_repeat <= 4 THEN F32One
    ELSE IF max_repeat <= 5 THEN F32_0_80
    ELSE IF max_repeat <= 10 THEN F32_0_50
    ELSE F32_0_20

\* the match on max_repeat
RepetitionScore(max_repeat) ==
    IF max_repeat <= 3 THEN F32One
    ELSE IF max_repeat <= 5 THEN F32_0_80
    ELSE IF max_repeat <= 10 THEN F32_0_50
    ELSE F32_0_20

\* detect_repetition
detect_repetition(text) == RepetitionScore(RepetitionScan(text, 1, 1, 1))

\* f32::clamp(0.0, 1.0)
Clamp01(x) == IF F32Lt(F32One, x) THEN F32One ELSE x

\* the sum with the first weight at 0.50
WeightedSum_HalfChar(char_score, word_score, whitespace_score, repetition_score) ==
    F32Add(F32Add(F32Add(F32Mul(F32_0_50, char_score),
                         F32Mul(F32_0_30, word_score)),
                  F32Mul(F32_0_15, whitespace_score)),
           F32Mul(F32_0_15, repetition_score))

\* 0.40 * char_score + 0.30 * word_score + 0.15 * whitespace_score
\*   + 0.15 * repetition_score, summed from the left
WeightedSum(char_score, word_score, whitespace_score, repetition_score) ==
    F32Add(F32Add(F32Add(F32Mul(F32_0_40, char_score),
                         F32Mul(F32_0_30, word_score)),
                  F32Mul(F32_0_15, whitespace_score)),
           F32Mul(F32_0_15, repetition_score))

\* a scorer that returns 0.0 for every text without a word
calculate_confidence_BlankIsEmpty(text) ==
    IF WordStarts(text) = {} THEN F32Zero
    ELSE IF StrLen(text) < 5 THEN F32_0_50
    ELSE Clamp01(WeightedSum(analyze_char_frequency(text), analyze_word_lengths(text),
                             analyze_whitespace(text), detect_repetition(text)))

\* calculate_confidence
calculate_confidence(text) ==
    IF Len(text) = 0 THEN F32Zero
    ELSE IF StrLen(text) < 5 THEN F32_0_50
    ELSE Clamp01(WeightedSum(analyze_char_frequency(text), analyze_word_lengths(text),
                             analyze_whitespace(text), detect_repetition(text)))


\* the characters the scored texts are made of: a letter, a second letter, a
\* digit, a space, a punctuation mark and a two-byte symbol
TextAlphabet == {"a", "b", "7", " ", ".", "U+00A7"}

\* the texts of at most n characters
TextsUpTo(n) == UNION {[1..k -> TextAlphabet] : k \in 0..n}

\* the texts of the scorer's unit tests that the bounded texts do not cover
SampleTexts ==
    { <<"H", "e", "l", "l", "o", " ", "a", "a", "a", "a", "a", "a", "a", "a", "a", "a",
        "a", "a", " ", "W", "o", "r", "l", "d">>,
      <<"a", " ", "b", " ", "c", " ", "d", " ", "e", " ", "g", " ", "h", " ", "i", " ",
        "j", " ", "k", " ", "l", " ", "o", " ", "p">>,
      <<"T", "h", "e", " ", "c", "a", "t", " ", "s", "a", "t", ".">>,
      <<"U+00A7", "U+00B1", "U+00A7", "U+00B1", "U+00A7", "U+00B1", "U+00A7", "U+00B1",
        "U+00A7">>,
      <<"c", "a", "f", "U+00E9", "\n", "#", "#", "#", "#", "#", "#">> }

\* the texts of five characters or more that are n - spaces times the letter
\* a and then spaces: every whitespace percentage with a denominator up to
\* MaxSpacedLen
MaxSpacedLen == 25
SpacedTexts ==
    UNION {{[i \in 1..n |-> IF i <= n - spaces THEN "a" ELSE " "] : spaces \in 0..n} :
              n \in 5..MaxSpacedLen}

\* the runs of one character, up to MaxRunLen long
MaxRunLen == 12
RunTexts == {[i \in 1..n |-> c] : n \in 5..MaxRunLen, c \in {"a", " ", "U+00A7"}}

\* the texts of special characters only
SpecialTexts ==
    UNION {[1..k -> {"U+00A7", "U+00B1", "U+0001", "U+0002"}] : k \in 1..MaxTextLen}

\* a garbled text on the lowest row of every heuristic: a run of eleven control
\* characters, ten one-character words of a control character, and white
\* space for 15 of its 36 characters
GarbledTexts ==
    {[i \in 1..36 |-> IF i <= 11 THEN "U+0001"
                      ELSE IF i <= 31 /\ i % 2 = 1 THEN "U+0002"
                      ELSE " "]}

ScoredTexts ==
    TextsUpTo(MaxTextLen) \cup SampleTexts \cup SpacedTexts \cup RunTexts \cup SpecialTexts
        \cup GarbledTexts

\* the recognised text is handed to the scorer
ConfidenceInit == cf_text \in ScoredTexts /\ cf_score = NoValue

\* let confidence = calculate_confidence(&text)
Score ==
    /\ cf_score = NoValue
    /\ cf_score' = calculate_confidence(cf_text)
    /\ UNCHANGED cf_text

(***************************************************************************)
(* PDF image extraction (engines/ocrs.rs).  The integers of a PDF          *)
(* dictionary are i64 and the image dimensions u32: both are kept as       *)
(* little-endian sequences of base-256 digits, since their products do not *)
(* fit the model checker's integers.                                       *)
(***************************************************************************)
Byte == 256

\* the digits of a natural number n < 2^31, k of them
RECURSIVE NatDigits(_, _)
NatDigits(n, k) == IF k = 0 THEN <<>> ELSE <<n % Byte>> \o NatDigits(n \div Byte, k - 1)

\* a non-negative i64 below 2^31
I64(n) == NatDigits(n, 8)
\* -1 as an i64, in two's complement
I64MinusOne == [k \in 1..8 |-> 255]
\* 2^32 + n as an i64
I64Above32Bits(n) == NatDigits(n, 4) \o <<1, 0, 0, 0>>

\* `as u32` and `as u8` of an i64: the low 4 bytes, the low byte
AsU32(i) == SubSeq(i, 1, 4)
AsU8(i) == i[1]

\* the sum of the digit products that fall on digit k (from 0) of a * b
RECURSIVE ColumnSum(_, _, _, _)
ColumnSum(a, b, k, i) ==
    IF i > Len(a) THEN 0
    ELSE (IF k - i + 2 >= 1 /\ k - i + 2 <= Len(b) THEN a[i] * b[k - i + 2] ELSE 0)
         + ColumnSum(a, b, k, i + 1)

\* the digits of a * b from digit k on, carry coming in; total is digit k's
\* column sum plus the carry
RECURSIVE MulFrom(_, _, _, _)
MulDigit(a, b, k, total) == <<total % Byte>> \o MulFrom(a, b, k + 1, total \div Byte)

MulFrom(a, b, k, carry) ==
    IF k = Len(a) + Len(b) THEN <<>>
    ELSE MulDigit(a, b, k, ColumnSum(a, b, k, 1) + carry)

\* the exact product, of Len(a) + Len(b) digits
MulExact(a, b) == MulFrom(a, b, 0, 0)

\* does the value need more than n digits
Exceeds(d, n) == \E k \in (n + 1)..Len(d) : d[k] # 0

\* the value of digits that stand for a number below 2^31, else -1
RECURSIVE DigitsValue(_)
DigitsValue(d) ==
    IF d = <<>> THEN 0
    ELSE IF Exceeds(d, 4) \/ (Len(d) >= 4 /\ d[4] >= 128) THEN -1
    ELSE d[1] + Byte * DigitsValue(Tail(d))

\* len >= the value of the digits d, for a length len < 2^31
LenAtLeast(len, d) == DigitsValue(d) # -1 /\ len >= DigitsValue(d)

\* a u32 product: its exact digits, and whether it overflows 32 bits
U32Mul(a, b) == [digits |-> MulExact(a, b), overflow |-> Exceeds(MulExact(a, b), 4)]

\* width * height * n with every `*` a u32 multiplication, as the code writes
\* it: the wrapped value and whether one of the multiplications overflows
U32Area(width, height, n) ==
    [value    |-> AsU32(MulExact(AsU32(MulExact(width, height)), NatDigits(n, 4))),
     overflow |-> \/ Exceeds(MulExact(width, height), 4)
                  \/ Exceeds(MulExact(AsU32(MulExact(width, height)), NatDigits(n, 4)), 4)]

\* the image crate's ImageBuffer::from_raw: a buffer when the container holds
\* at least width * height * channels samples, the product taken exactly
FromRaw(width, height, channels, len) ==
    IF LenAtLeast(len, MulExact(MulExact(width, height), NatDigits(channels, 1)))
    THEN [kind |-> "ok",
          image |-> [width |-> DigitsValue(width), height |-> DigitsValue(height),
                     channels |-> channels, len |-> len]]
    ELSE [kind |-> "err", error |-> "Invalid image data"]

\* The values of a PDF dictionary entry: NoValue for an absent entry,
\* [name |-> n], [int |-> i] with i an i64, [array |-> values] and
\* [ref |-> v] for a reference, v being the object doc.get_object finds for it
\* or NoValue when there is none.
IsName(v)  == DOMAIN v = {"name"}
IsInt(v)   == DOMAIN v = {"int"}
IsArray(v) == DOMAIN v = {"array"}
IsRef(v)   == DOMAIN v = {"ref"}
Name(n) == [name |-> n]
Integer(n)  == [int |-> I64(n)]

\* array.first() is a name
FirstIsName(v) == IsArray(v) /\ Len(v.array) > 0 /\ IsName(v.array[1])

\* The bytes of a name are written as a string; "0xFF" stands for the name
\* whose only byte is FF, which is not UTF-8.  String::from_utf8_lossy puts
\* U+FFFD for each invalid sequence and copies the rest, the empty name
\* included.
Utf8Lossy(name) == IF name = "0xFF" THEN "U+FFFD" ELSE name

\* get_color_space without the array behind a reference
get_color_space_NoReferencedArray(stream) ==
    IF stream.ColorSpace = NoValue THEN "DeviceRGB"
    ELSE IF IsName(stream.ColorSpace) THEN Utf8Lossy(stream.ColorSpace.name)
    ELSE IF IsRef(stream.ColorSpace) /\ IsName(stream.ColorSpace.ref)
         THEN Utf8Lossy(stream.ColorSpace.ref.name)
    ELSE IF FirstIsName(stream.ColorSpace) THEN Utf8Lossy(stream.ColorSpace.array[1].name)
    ELSE "DeviceRGB"

\* get_color_space
get_color_space(stream) ==
    IF stream.ColorSpace = NoValue THEN "DeviceRGB"
    ELSE IF IsName(stream.ColorSpace) THEN Utf8Lossy(stream.ColorSpace.name)
    ELSE IF IsRef(stream.ColorSpace) /\ IsName(stream.ColorSpace.ref)
         THEN Utf8Lossy(stream.ColorSpace.ref.name)
    ELSE IF IsRef(stream.ColorSpace) /\ FirstIsName(stream.ColorSpace.ref)
         THEN Utf8Lossy(stream.ColorSpace.ref.array[1].name)
    ELSE IF FirstIsName(stream.ColorSpace) THEN Utf8Lossy(stream.ColorSpace.array[1].name)
    ELSE "DeviceRGB"

\* .and_then(|b| b.as_i64().ok()).unwrap_or(8) as u8
BitsPerComponent(stream) ==
    IF IsInt(stream.BitsPerComponent) THEN AsU8(stream.BitsPerComponent.int) ELSE 8

Failed(message) == [kind |-> "err", error |-> message]

\* One arm of the match on the color space: the guard
\* bits_per_component == 8 && data.len() >= (width * height * n) as usize,
\* from_raw on a container of len samples, or the Err whose message prints
\* width * height * n.  Both branches multiply: with overflow checks the
\* build panics on an overflow, without them the product wraps.
DecodeSamples(width, height, n, channels, bits, data_len, len, checks, what) ==
    IF U32Area(width, height, n).overflow /\ checks THEN [kind |-> "panic"]
    ELSE IF bits = 8 /\ LenAtLeast(data_len, U32Area(width, height, n).value)
         THEN IF FromRaw(width, height, channels, len).kind = "ok"
              THEN FromRaw(width, height, channels, len)
              ELSE Failed("Invalid " \o what)
         ELSE Failed("Unsupported " \o what)

\* the match on the color space
DecodeColorSpace(stream, width, height, color_space, checks) ==
    IF color_space = "DeviceGray"
    THEN DecodeSamples(width, height, 1, 1, BitsPerComponent(stream), stream.data_len,
                       stream.data_len, checks, "grayscale")
    ELSE IF color_space \in {"DeviceRGB", "ICCBased"}
    THEN DecodeSamples(width, height, 3, 3, BitsPerComponent(stream), stream.data_len,
                       stream.data_len, checks, "RGB")
    ELSE IF color_space = "DeviceCMYK"
    THEN DecodeSamples(width, height, 4, 3, BitsPerComponent(stream), stream.data_len,
                       3 * (stream.data_len \div 4), checks, "CMYK")
    ELSE Failed("Unsupported color space")

\* extract_image_from_stream, in a build with or without overflow checks
extract_image_from_stream(stream, checks) ==
    IF ~IsInt(stream.Width) THEN Failed("Missing image width")
    ELSE IF ~IsInt(stream.Height) THEN Failed("Missing image height")
    ELSE IF ~stream.decompresses THEN Failed("Failed to decompress image")
    ELSE DecodeColorSpace(stream, AsU32(stream.Width.int), AsU32(stream.Height.int),
                          get_color_space(stream), checks)

\* object.as_stream() is Ok and the stream's Subtype is the name Image
IsImageXObject(object) ==
    object.kind = "stream" /\ IsName(object.Subtype) /\ object.Subtype.name = "Image"

ImageStream(width, height, decompresses, data_len, color_space, bits) ==
    [kind |-> "stream", Subtype |-> Name("Image"), Width |-> width, Height |-> height,
     decompresses |-> decompresses, data_len |-> data_len, ColorSpace |-> color_space,
     BitsPerComponent |-> bits]

\* the objects the documents are made of
PdfObjects ==
    { [kind |-> "dictionary"],
      [kind |-> "stream", Subtype |-> Name("Form")],
      [kind |-> "stream", Subtype |-> NoValue],
      ImageStream(Integer(2), Integer(2), TRUE, 4, Name("DeviceGray"), Integer(8)),
      ImageStream(Integer(2), Integer(1), TRUE, 6, NoValue, NoValue),
      ImageStream(Integer(1), Integer(1), TRUE, 4, Name("DeviceCMYK"), Integer(8)),
      ImageStream(NoValue, Integer(2), TRUE, 12, Name("DeviceRGB"), Integer(8)),
      ImageStream(Integer(2), Name("two"), TRUE, 12, Name("DeviceRGB"), Integer(8)),
      ImageStream(Integer(2), Integer(2), FALSE, 0, Name("DeviceRGB"), Integer(8)),
      ImageStream(Integer(2), Integer(2), TRUE, 12, Name("Indexed"), Integer(8)),
      ImageStream(Integer(2), Integer(2), TRUE, 12, Name("DeviceRGB"), Integer(1)),
      ImageStream(Integer(2), Integer(2), TRUE, 11, Name("DeviceRGB"), Integer(8)),
      ImageStream(Integer(65536), Integer(65536), TRUE, 4, Name("DeviceGray"), Integer(8)) }

\* the most objects in a document
MaxObjects == 2

\* what Document::load finds at the path: no PDF, or the objects in the order
\* of doc.objects, a BTreeMap
Documents ==
    {[loads |-> FALSE, objects |-> <<>>]}
    \cup {[loads |-> TRUE, objects |-> s] : s \in UNION {[1..k -> PdfObjects] : k \in 0..MaxObjects}}

pxVars == <<px_pc, px_doc, px_checks, px_i, px_images, px_warned, px_result>>

ExtractionIdle ==
    /\ px_pc = "idle" /\ px_doc = NoValue /\ px_checks = FALSE /\ px_i = 0
    /\ px_images = <<>> /\ px_warned = <<>> /\ px_result = NoValue

\* extract_images_from_pdf is called on a path; the build was made with or
\* without overflow checks
ExtractionInit ==
    /\ px_pc = "load" /\ px_doc \in Documents /\ px_checks \in BOOLEAN /\ px_i = 0
    /\ px_images = <<>> /\ px_warned = <<>> /\ px_result = NoValue

\* Document::load(path).map_err(..)?
LoadDocument ==
    /\ px_pc = "load"
    /\ IF px_doc.loads
       THEN px_pc' = "objects" /\ px_i' = 1 /\ UNCHANGED px_result
       ELSE px_pc' = "done" /\ px_result' = Failed("Failed to load PDF") /\ UNCHANGED px_i
    /\ UNCHANGED <<px_doc, px_checks, px_images, px_warned>>

\* the loop body with the result r of extract_image_from_stream
PushOrWarn(r) ==
    /\ px_i' = px_i + 1
    /\ IF r.kind = "panic"
       THEN px_pc' = "done" /\ px_result' = r /\ UNCHANGED <<px_images, px_warned>>
       ELSE /\ UNCHANGED <<px_pc, px_result>>
            /\ IF r.kind = "ok"
               THEN px_images' = Append(px_images, r.image) /\ UNCHANGED px_warned
               ELSE px_warned' = Append(px_warned, px_i) /\ UNCHANGED px_images

\* one iteration of for (object_id, object) in doc.objects.iter()
VisitObject ==
    /\ px_pc = "objects" /\ px_i <= Len(px_doc.objects)
    /\ IF IsImageXObject(px_doc.objects[px_i])
       THEN PushOrWarn(extract_image_from_stream(px_doc.objects[px_i], px_checks))
       ELSE px_i' = px_i + 1 /\ UNCHANGED <<px_pc, px_images, px_warned, px_result>>
    /\ UNCHANGED <<px_doc, px_checks>>

\* Ok(images)
ReturnImages ==
    /\ px_pc = "objects" /\ px_i > Len(px_doc.objects)
    /\ px_pc' = "done"
    /\ px_result' = [kind |-> "ok", images |-> px_images]
    /\ UNCHANGED <<px_doc, px_checks, px_i, px_images, px_warned>>

(***************************************************************************)
(* extract_image_from_stream on its own, over a range of image streams.    *)
(***************************************************************************)
\* the array [/ICCBased profile] of an ICC colour space, the profile a stream
\* whose dictionary gives the number N of components
IccArray(n) ==
    [array |-> <<Name("ICCBased"), [ref |-> [kind |-> "stream", N |-> Integer(n)]]>>]

\* the values a ColorSpace entry resolves to when it is a name or an array
ColorSpaceValues ==
    {Name(n) : n \in {"DeviceGray", "DeviceRGB", "DeviceCMYK", "ICCBased", "Indexed", "", "0xFF"}}
    \cup {IccArray(1), IccArray(3), IccArray(4)}
    \cup {[array |-> <<Name("Indexed"), Name("DeviceRGB"), Integer(1)>>],
          [array |-> <<>>],
          [array |-> <<Integer(3), Name("DeviceGray")>>]}

\* the ColorSpace entries of the streams
ColorSpaceEntries ==
    {NoValue} \cup ColorSpaceValues
    \cup {[ref |-> v] : v \in ColorSpaceValues}
    \cup {[ref |-> NoValue], [ref |-> Integer(3)], [ref |-> [ref |-> Name("DeviceGray")]],
          Integer(3)}

\* the image streams decoded
ImageStreams ==
    { ImageStream(w, h, TRUE, len, cs, bits) :
        w \in {NoValue, Integer(2), Integer(65536), [int |-> I64Above32Bits(2)]},
        h \in {Name("two"), Integer(2), Integer(65536)},
        len \in {0, 4, 5, 12, 13, 16},
        cs \in ColorSpaceEntries,
        bits \in {NoValue, Integer(8), Integer(1), Integer(264), Name("eight")} }
    \cup { ImageStream(Integer(2), Integer(2), FALSE, 0, cs, Integer(8)) :
             cs \in ColorSpaceEntries }

dsVars == <<ds_stream, ds_checks, ds_color_space, ds_result>>

DecodeIdle ==
    ds_stream = NoValue /\ ds_checks = FALSE /\ ds_color_space = NoValue /\ ds_result = NoValue

\* extract_image_from_stream is called on a stream; the build was made with
\* or without overflow checks
DecodeInit ==
    /\ ds_stream \in ImageStreams /\ ds_checks \in BOOLEAN
    /\ ds_color_space = NoValue /\ ds_result = NoValue

\* the call returns
DecodeStream ==
    /\ ds_result = NoValue
    /\ ds_color_space' = get_color_space(ds_stream)
    /\ ds_result' = extract_image_from_stream(ds_stream, ds_checks)
    /\ UNCHANGED <<ds_stream, ds_checks>>

(***************************************************************************)
(* resize::apply on its own, over a range of image sizes.                  *)
(***************************************************************************)
\* the widths and heights of the images resized
ResizeSides == {1, 2, 3, 24, 71, 72, 73, 100, 299, 300, 301, 500, 899, 900,
                960, 2000, 3800, 4000, 4100, 4200, 10000}

\* apply is called on an image
ResizeInit ==
    /\ rs_in \in [width : ResizeSides, height : ResizeSides]
    /\ rs_out = NoValue

\* apply returns: the input image on the skip path, else the resized image
ResizeReturn ==
    /\ rs_out = NoValue
    /\ \E d \in ResizeDims(rs_in.width, rs_in.height) :
           rs_out' = [width |-> d[1], height |-> d[2]]
    /\ UNCHANGED rs_in

(***************************************************************************)
(* f64 arithmetic for the threshold step's window statistics               *)
(* (steps/threshold.rs), round-to-nearest-even.  A non-negative f64 is     *)
(* [m, e] with value m * 2^e, m a number of 7 base-256 digits, 0 or        *)
(* 2^52 <= m < 2^53.  Numbers of several digits are little-endian          *)
(* sequences, as above.                                                    *)
(***************************************************************************)
Zeros(k) == [i \in 1..k |-> 0]

\* digit k of d, 0 beyond its ends
DigitAt(d, k) == IF k >= 1 /\ k <= Len(d) THEN d[k] ELSE 0

\* the number of bits of the value
BigBitLen(d) ==
    IF \A k \in 1..Len(d) : d[k] = 0 THEN 0
    ELSE 8 * ((CHOOSE k \in 1..Len(d) : d[k] # 0 /\ \A j \in (k + 1)..Len(d) : d[j] = 0) - 1)
         + BitLen(d[CHOOSE k \in 1..Len(d) : d[k] # 0 /\ \A j \in (k + 1)..Len(d) : d[j] = 0])

\* bit i (from 0) of the value
BigBit(d, i) == (DigitAt(d, (i \div 8) + 1) \div Pow2[i % 8]) % 2

\* the r low bits of the value are zero
BigLowZero(d, r) ==
    /\ \A k \in 1..(r \div 8) : DigitAt(d, k) = 0
    /\ DigitAt(d, (r \div 8) + 1) % Pow2[r % 8] = 0

\* the value shifted right by r bits, in len digits
BigShiftRight(d, r, len) ==
    [k \in 1..len |->
        (DigitAt(d, k + (r \div 8)) \div Pow2[r % 8])
        + (DigitAt(d, k + (r \div 8) + 1) % Pow2[r % 8]) * Pow2[8 - (r % 8)]]

\* the value shifted left by r bits, in len digits
BigShiftLeft(d, r, len) ==
    [k \in 1..len |->
        (DigitAt(d, k - (r \div 8)) % Pow2[8 - (r % 8)]) * Pow2[r % 8]
        + (DigitAt(d, k - (r \div 8) - 1) \div Pow2[8 - (r % 8)])]

\* the value plus one, in as many digits (the value is not all ones)
BigInc(d) ==
    [k \in 1..Len(d) |->
        IF \A j \in 1..(k - 1) : d[j] = 255
        THEN (IF d[k] = 255 THEN 0 ELSE d[k] + 1)
        ELSE d[k]]

\* the value with bit i set
BigSetBit(d, i) == [d EXCEPT ![(i \div 8) + 1] = @ + Pow2[i % 8]]

\* a <= b, for numbers of as many digits
BigLe(a, b) ==
    \/ a = b
    \/ \E k \in 1..Len(a) : a[k] < b[k] /\ \A j \in (k + 1)..Len(a) : a[j] = b[j]

\* a - b from digit k on, for a >= b of as many digits
RECURSIVE BigSubFrom(_, _, _, _)
BigSubFrom(a, b, k, borrow) ==
    IF k > Len(a) THEN <<>>
    ELSE <<(a[k] - b[k] - borrow + Byte) % Byte>>
         \o BigSubFrom(a, b, k + 1, IF a[k] - b[k] - borrow < 0 THEN 1 ELSE 0)

BigSub(a, b) == BigSubFrom(a, b, 1, 0)

\* the division of the value by n < 2^23, from the top digit down: the
\* quotient's digits and the remainder
ShortDivStep(high, digit, n) ==
    [q |-> <<(high.r * Byte + digit) \div n>> \o high.q, r |-> (high.r * Byte + digit) % n]

RECURSIVE ShortDiv(_, _)
ShortDiv(d, n) ==
    IF d = <<>> THEN [q |-> <<>>, r |-> 0]
    ELSE ShortDivStep(ShortDiv(Tail(d), n), Head(d), n)

F64Zero == [m |-> Zeros(7), e |-> 0]

\* q * 2^e with q of 53 bits, rounded up or not
F64Carry(q, e, up) ==
    IF ~up THEN [m |-> q, e |-> e]
    ELSE IF BigInc(q)[7] = 32 THEN [m |-> BigShiftLeft(<<1>>, 52, 7), e |-> e + 1]
    ELSE [m |-> BigInc(q), e |-> e]

\* d * 2^e for d of len bits
F64Normal(d, e, sticky, len) ==
    IF len = 0 THEN F64Zero
    ELSE IF len <= 53 THEN [m |-> BigShiftLeft(d, 53 - len, 7), e |-> e - (53 - len)]
    ELSE F64Carry(BigShiftRight(d, len - 53, 7), e + (len - 53),
                  /\ BigBit(d, len - 54) = 1
                  /\ sticky \/ ~BigLowZero(d, len - 54) \/ BigBit(d, len - 53) = 1)

\* d * 2^e (plus a non-zero part below d's last bit when sticky) rounded to
\* f64; when sticky, d has at least 55 bits
F64Round(d, e, sticky) == F64Normal(d, e, sticky, BigBitLen(d))

\* a as f64 / b as f64 for integers 0 <= a < 2^31, 0 < b < 2^23
F64DivInts(a, b) ==
    F64Round(ShortDiv(Zeros(8) \o NatDigits(a, 4), b).q, -64,
             ShortDiv(Zeros(8) \o NatDigits(a, 4), b).r # 0)

\* f64 `*`
F64Mul(a, b) == F64Round(MulExact(a.m, b.m), a.e + b.e, FALSE)

\* (a - b).max(0.0), the operands brought to the exponent e
F64SubAt(x, y, e) == IF BigLe(x, y) THEN F64Zero ELSE F64Round(BigSub(x, y), e, FALSE)

F64SubOrZero(a, b) ==
    F64SubAt(BigShiftLeft(a.m, a.e - Min(a.e, b.e), 16),
             BigShiftLeft(b.m, b.e - Min(a.e, b.e), 16), Min(a.e, b.e))

\* The integer square root, bit by bit from bit i down: root holds the bits
\* above i and rest is the number less root^2; bit i is set when
\* (root + 2^i)^2 - root^2 = step fits in rest.  The result is the root and
\* whether it is exact.
RECURSIVE Isqrt(_, _, _)
IsqrtStep(rest, root, i, step) ==
    IF BigLe(step, rest)
    THEN Isqrt(BigSub(rest, step), BigSetBit(root, i), i - 1)
    ELSE Isqrt(rest, root, i - 1)

Isqrt(rest, root, i) ==
    IF i < 0 THEN [root |-> root, exact |-> rest = Zeros(Len(rest))]
    ELSE IsqrtStep(rest, root, i, BigSetBit(BigShiftLeft(root, i + 1, Len(rest)), 2 * i))

\* the root of a number of 111 or 112 bits times 2^e, e even
F64SqrtOf(r, e) == F64Round(r.root, e \div 2, ~r.exact)

\* f64::sqrt
F64Sqrt(a) ==
    IF a = F64Zero THEN F64Zero
    ELSE F64SqrtOf(Isqrt(BigShiftLeft(a.m, 58 + (a.e % 2), 14), Zeros(7), 55),
                   a.e - (58 + (a.e % 2)))

\* `as f32` of an f64
F64ToF32(a) ==
    IF a = F64Zero THEN F32Zero
    ELSE F32Nearest((a.m[4] \div 32) + 8 * a.m[5] + 2048 * a.m[6] + 524288 * a.m[7],
                    a.m[1] + 256 * a.m[2] + 65536 * a.m[3] + 16777216 * (a.m[4] % 32),
                    Pow2[28], a.e + 29, FALSE)

(***************************************************************************)
(* The threshold step (steps/threshold.rs).                                *)
(***************************************************************************)
WINDOW_SIZE == 15
K == F32Lit(2, 10)
R == F32FromInt(128)

\* window_stats, from the window's sums: sum / area, and
\* ((sum_sq / area) - (mean * mean)).max(0.0).sqrt(), both cast to f32
StdDevOf(mean, sum_sq, area) ==
    F64Sqrt(F64SubOrZero(F64DivInts(sum_sq, area), F64Mul(mean, mean)))

StatsOf(mean, sum_sq, area) ==
    [mean |-> F64ToF32(mean), std_dev |-> F64ToF32(StdDevOf(mean, sum_sq, area))]

Stats(sum, sum_sq, area) == StatsOf(F64DivInts(sum, area), sum_sq, area)

\* mean * (1.0 + k * (std_dev / R - 1.0)); std_dev / R is at most 1, so the
\* negative k * (std_dev / R - 1.0) is taken as -(k * (1.0 - std_dev / R)),
\* which rounds the same
Threshold(mean, std_dev, k) ==
    F32Mul(mean, F32Sub(F32One, F32Mul(k, F32Sub(F32One, F32Div(std_dev, R)))))

\* pixel > threshold
AboveThreshold(pixel, stats, k) ==
    F32Lt(Threshold(stats.mean, stats.std_dev, k), F32FromInt(pixel))

\* A gray image: width, height and the samples px[<<x, y>>].
PixelsOf(img) == (0..(img.width - 1)) \X (0..(img.height - 1))

\* compute_integral_images: the table of val over the samples, indexed
\* [<<y, x>>] for y in 0..height and x in 0..width.  The sums are whole
\* numbers below 2^53, which f64 holds exactly.
IntegralImage(img, val(_)) ==
    LET integral[c \in (0..img.height) \X (0..img.width)] ==
            IF c[1] = 0 \/ c[2] = 0 THEN 0
            ELSE val(img.px[<<c[2] - 1, c[1] - 1>>]) + integral[<<c[1] - 1, c[2]>>]
                 + integral[<<c[1], c[2] - 1>>] - integral[<<c[1] - 1, c[2] - 1>>]
    IN  integral

Identity(v) == v
Square(v) == v * v

\* the closure's x1, y1, x2, y2 for the pixel <<x, y>>, window_size / 2 being
\* half_window
WindowWide(img, pixel, half_window) ==
    [x1 |-> Max(pixel[1] - half_window, 0), y1 |-> Max(pixel[2] - half_window, 0),
     x2 |-> Min(pixel[1] + half_window, img.width - 1),
     y2 |-> Min(pixel[2] + half_window, img.height - 1)]

\* a window twice as wide: half_window taken as window_size
Window_WholeSize(img, pixel) == WindowWide(img, pixel, WINDOW_SIZE)

Window(img, pixel) == WindowWide(img, pixel, WINDOW_SIZE \div 2)

\* integral[y2][x2] - integral[y1][x2] - integral[y2][x1] + integral[y1][x1]
\* with x2 and y2 one past the window
CornerSum(integral, x1, y1, x2, y2) ==
    integral[<<y2, x2>>] - integral[<<y1, x2>>] - integral[<<y2, x1>>] + integral[<<y1, x1>>]

\* window_stats: the mean and the standard deviation it returns, with the
\* sums and the area it computed them from
StatsRecord(sum, sum_sq, area, stats) ==
    [sum |-> sum, sum_sq |-> sum_sq, area |-> area,
     mean |-> stats.mean, std_dev |-> stats.std_dev]

WindowSums(sum, sum_sq, area) == StatsRecord(sum, sum_sq, area, Stats(sum, sum_sq, area))

window_stats(integral, integral_sq, w) ==
    WindowSums(CornerSum(integral, w.x1, w.y1, w.x2 + 1, w.y2 + 1),
               CornerSum(integral_sq, w.x1, w.y1, w.x2 + 1, w.y2 + 1),
               ((w.x2 + 1) - w.x1) * ((w.y2 + 1) - w.y1))

\* the two sample values of the images thresholded
TwoTone == [dark |-> 126, light |-> 221]
\* the most light samples in an image
MaxLight == 3

ThresholdShapes == {<<1, 1>>, <<2, 2>>, <<9, 1>>, <<7, 2>>}

\* the image of the shape with the light samples at the pixels in light
TwoToneImage(shape, light) ==
    [width |-> shape[1], height |-> shape[2],
     px |-> [q \in (0..(shape[1] - 1)) \X (0..(shape[2] - 1)) |->
                IF q \in light THEN TwoTone.light ELSE TwoTone.dark]]

ThresholdImages ==
    UNION { {TwoToneImage(shape, light) :
                light \in {s \in SUBSET ((0..(shape[1] - 1)) \X (0..(shape[2] - 1))) :
                              Cardinality(s) <= MaxLight}} :
            shape \in ThresholdShapes }

thVars == <<th_pc, th_img, th_integral, th_integral_sq, th_stats, th_out>>

ThresholdIdle ==
    /\ th_pc = "idle" /\ th_img = NoValue /\ th_integral = NoValue
    /\ th_integral_sq = NoValue /\ th_stats = NoValue /\ th_out = NoValue

\* sauvola_threshold is called on the gray image
ThresholdInit ==
    /\ th_pc = "integral" /\ th_img \in ThresholdImages /\ th_integral = NoValue
    /\ th_integral_sq = NoValue /\ th_stats = NoValue /\ th_out = NoValue

\* let (integral, integral_sq) = compute_integral_images(img)
ComputeIntegralImages ==
    /\ th_pc = "integral"
    /\ th_integral' = IntegralImage(th_img, Identity)
    /\ th_integral_sq' = IntegralImage(th_img, Square)
    /\ th_pc' = "from_fn"
    /\ UNCHANGED <<th_img, th_stats, th_out>>

\* GrayImage::from_fn(width, height, |x, y| ..): window_stats for the
\* window of each pixel, and the pixel compared with the threshold
FromFn ==
    /\ th_pc = "from_fn"
    /\ th_stats' = [w \in {Window(th_img, q) : q \in PixelsOf(th_img)} |->
                       window_stats(th_integral, th_integral_sq, w)]
    /\ th_out' = [q \in PixelsOf(th_img) |->
                     IF AboveThreshold(th_img.px[q], th_stats'[Window(th_img, q)], K)
                     THEN 255 ELSE 0]
    /\ th_pc' = "done"
    /\ UNCHANGED <<th_img, th_integral, th_integral_sq>>

(***************************************************************************)
(* process_pdf (engines/ocrs.rs and engines/leptess.rs).  A text is the    *)
(* sequence of its characters, as for the scorer.  The two engines differ  *)
(* in process_dynamic_image and in the confidence of the combined text;    *)
(* extract_images_from_pdf is the same code in both files.                 *)
(***************************************************************************)
F32_0_95 == F32Lit(95, 100)

\* str::trim
RECURSIVE TrimStart(_)
TrimStart(text) ==
    IF text # <<>> /\ IsWhitespace(Head(text)) THEN TrimStart(Tail(text)) ELSE text

RECURSIVE TrimEnd(_)
TrimEnd(text) ==
    IF text # <<>> /\ IsWhitespace(text[Len(text)])
    THEN TrimEnd(SubSeq(text, 1, Len(text) - 1)) ELSE text

Trim(text) == TrimEnd(TrimStart(text))

\* [String]::join
RECURSIVE Join(_, _)
Join(texts, sep) ==
    IF texts = <<>> THEN <<>>
    ELSE IF Len(texts) = 1 THEN texts[1]
    ELSE texts[1] \o sep \o Join(Tail(texts), sep)

BlankLine == <<"\n", "\n">>

\* what pdf_extract::extract_text finds in the file
DirectTexts ==
    { <<>>,
      <<" ", "\n">>,
      <<" ", "a", "b", "\n">>,
      <<"\n", "a", "b", " ", "a", "b", "7", ".", "a", "b", "7", " ">>,
      <<"a", "b", " ", "a", "b", "7", ".", "a", "b", "7", "a">>,
      <<" ", "a", "b", " ", "a", "b", "7", ".", "a", "b", "7", "a", "\n">>,
      <<"U+00E9", "U+00E9", "U+00E9", "U+00E9", "U+00E9">>,
      <<"U+00E9", "U+00E9", "U+00E9", "U+00E9", "U+00E9", "U+00E9", " ">> }

ExtractTextResults ==
    {Failed("Failed to parse PDF")} \cup {[kind |-> "ok", text |-> text] : text \in DirectTexts}

\* the documents Document::load finds: objects that are no image, an image
\* that decodes, one that does not, and one whose area overflows u32
ScannedObjects ==
    { [kind |-> "dictionary"],
      ImageStream(Integer(2), Integer(2), TRUE, 4, Name("DeviceGray"), Integer(8)),
      ImageStream(Integer(2), Integer(2), TRUE, 12, Name("Indexed"), Integer(8)),
      ImageStream(Integer(65536), Integer(65536), TRUE, 4, Name("DeviceGray"), Integer(8)) }

ScannedDocuments ==
    {d \in Documents : \A k \in 1..Len(d.objects) : d.objects[k] \in ScannedObjects}

\* the lines the engine recognises in an image
RecognisedTexts == {<<>>, <<"a">>, <<"b", " ", "7">>}
\* what Tesseract::get_text returns, and mean_text_conf
TesseractTexts == {<<"\n">>, <<"a", "\n">>, <<"b", " ", "7">>}
MeanTextConfs == {50, 90}

Recognised(text, confidence) ==
    [kind |-> "ok", text |-> text, confidence |-> confidence, warnings |-> <<>>]

\* the results of process_dynamic_image on an image
EngineResults(engine) ==
    IF engine = "ocrs"
    THEN {Failed("Failed to recognize text")}
         \cup {Recognised(text, calculate_confidence(text)) : text \in RecognisedTexts}
    ELSE {Failed("Failed to recognize text")}
         \cup {Recognised(Trim(text), F32Div(F32FromInt(conf), F32FromInt(100))) :
                  text \in TesseractTexts, conf \in MeanTextConfs}

ScannedWarning == "PDF appears to be scanned/image-based, extracting images for OCR"

OcrResult(text, confidence, warnings) ==
    [kind |-> "ok", text |-> text, confidence |-> confidence, warnings |-> warnings]

ppVars == <<pp_pc, pp_engine, pp_direct, pp_calls, pp_i, pp_all_text, pp_total,
            pp_count, pp_warnings, pp_recognised, pp_result>>

ProcessPdfIdle ==
    /\ pp_pc = "idle" /\ pp_engine = "ocrs" /\ pp_direct = NoValue /\ pp_calls = <<>>
    /\ pp_i = 0 /\ pp_all_text = <<>> /\ pp_total = F32Zero /\ pp_count = 0
    /\ pp_warnings = <<>> /\ pp_recognised = <<>> /\ pp_result = NoValue

\* process_pdf is called on a path by one of the two engines; the file at the
\* path is what Document::load will find
ProcessPdfInit ==
    /\ pp_pc = "start" /\ pp_engine \in {"ocrs", "leptess"} /\ pp_direct = NoValue
    /\ pp_calls = <<>> /\ pp_i = 0 /\ pp_all_text = <<>> /\ pp_total = F32Zero
    /\ pp_count = 0 /\ pp_warnings = <<>> /\ pp_recognised = <<>> /\ pp_result = NoValue
    /\ px_pc = "idle" /\ px_doc \in ScannedDocuments /\ px_checks \in BOOLEAN /\ px_i = 0
    /\ px_images = <<>> /\ px_warned = <<>> /\ px_result = NoValue

ReturnFromPdf(result) ==
    /\ pp_pc' = "done" /\ pp_result' = result
    /\ UNCHANGED <<pp_i, pp_all_text, pp_total, pp_count, pp_warnings>>

\* the direct text is too short: push the warning and call
\* extract_images_from_pdf(path)
FallBackToImages ==
    /\ pp_pc' = "extract" /\ pp_warnings' = <<ScannedWarning>>
    /\ pp_calls' = <<"extract_text", "extract_images_from_pdf">>
    /\ px_pc' = "load"
    /\ UNCHANGED <<pp_i, pp_all_text, pp_total, pp_count, pp_result>>

\* the test of the text with 11 in place of 10
AfterExtractText_Over11(trimmed_text) ==
    IF trimmed_text # <<>> /\ StrLen(trimmed_text) > 11
    THEN /\ ReturnFromPdf(OcrResult(trimmed_text, F32_0_95, pp_warnings))
         /\ pp_calls' = <<"extract_text">> /\ UNCHANGED px_pc
    ELSE FallBackToImages

\* with the trimmed direct text
AfterExtractText(trimmed_text) ==
    IF trimmed_text # <<>> /\ StrLen(trimmed_text) > 10
    THEN /\ ReturnFromPdf(OcrResult(trimmed_text, F32_0_95, pp_warnings))
         /\ pp_calls' = <<"extract_text">> /\ UNCHANGED px_pc
    ELSE FallBackToImages

\* pdf_extract::extract_text(path).map_err(..)? and the test of the text
ExtractText ==
    /\ pp_pc = "start"
    /\ \E r \in ExtractTextResults :
           /\ pp_direct' = r
           /\ IF r.kind = "err"
              THEN ReturnFromPdf(r) /\ pp_calls' = <<"extract_text">> /\ UNCHANGED px_pc
              ELSE AfterExtractText(Trim(r.text))
    /\ UNCHANGED <<pp_engine, pp_recognised>>
    /\ UNCHANGED <<px_doc, px_checks, px_i, px_images, px_warned, px_result>>

\* let images = extract_images_from_pdf(path)?; if images.is_empty() { .. }
ImagesExtracted ==
    /\ pp_pc = "extract" /\ px_pc = "done"
    /\ IF px_result.kind # "ok"
       THEN ReturnFromPdf(px_result)
       ELSE IF px_result.images = <<>>
       THEN /\ pp_pc' = "done"
            /\ pp_result' = OcrResult(<<>>, F32Zero, <<"No text or images found in PDF">>)
            /\ UNCHANGED <<pp_i, pp_all_text, pp_total, pp_count, pp_warnings>>
       ELSE /\ pp_pc' = "images" /\ pp_i' = 1
            /\ UNCHANGED <<pp_all_text, pp_total, pp_count, pp_warnings, pp_result>>
    /\ UNCHANGED <<pp_engine, pp_direct, pp_calls, pp_recognised, pxVars>>

\* the match on the result r of process_dynamic_image
PushText(r) ==
    IF r.kind = "ok"
    THEN /\ UNCHANGED pp_warnings
         /\ IF r.text # <<>>
            THEN /\ pp_all_text' = Append(pp_all_text, r.text)
                 /\ pp_total' = (IF pp_engine = "leptess" THEN F32Add(pp_total, r.confidence)
                                 ELSE pp_total)
                 /\ pp_count' = (IF pp_engine = "leptess" THEN pp_count + 1 ELSE pp_count)
            ELSE UNCHANGED <<pp_all_text, pp_total, pp_count>>
    ELSE /\ pp_warnings' = Append(pp_warnings, [failed_to_ocr_image |-> pp_i, error |-> r.error])
         /\ UNCHANGED <<pp_all_text, pp_total, pp_count>>

\* one iteration of for (i, img) in images.iter().enumerate()
RecogniseImage ==
    /\ pp_pc = "images" /\ pp_i <= Len(px_result.images)
    /\ \E r \in EngineResults(pp_engine) :
           /\ pp_recognised' = Append(pp_recognised, [image |-> pp_i, result |-> r])
           /\ PushText(r)
    /\ pp_calls' = Append(pp_calls, "process_dynamic_image")
    /\ pp_i' = pp_i + 1
    /\ UNCHANGED <<pp_pc, pp_engine, pp_direct, pp_result, pxVars>>

\* the confidence of the combined text
CombinedConfidence(combined_text) ==
    IF pp_engine = "ocrs" THEN calculate_confidence(combined_text)
    ELSE IF pp_count > 0 THEN F32Div(pp_total, F32FromInt(pp_count))
    ELSE F32Zero

\* let combined_text = all_text.join("\n\n"); .. Ok(OcrResult { .. })
ReturnCombined ==
    /\ pp_pc = "images" /\ pp_i > Len(px_result.images)
    /\ ReturnFromPdf(OcrResult(Join(pp_all_text, BlankLine),
                               CombinedConfidence(Join(pp_all_text, BlankLine)), pp_warnings))
    /\ UNCHANGED <<pp_engine, pp_direct, pp_calls, pp_recognised, pxVars>>

(***************************************************************************)
(* The deskew step's angle detection (preprocessing/steps/deskew.rs).      *)
(* The candidate angles are f32 values with a sign, accumulated as the     *)
(* loops accumulate them, so that the drift of `+= 0.1` decides the last   *)
(* iteration as it does in the code.  Every candidate is within 10^-5      *)
(* degrees of a tenth of a degree; its sine and cosine are read at that    *)
(* tenth from tables scaled by TrigScale, and dy * cos - dx * sin + cy is  *)
(* computed on doubled coordinates without rounding.                       *)
(***************************************************************************)
Signed(neg, abs) == [neg |-> neg /\ abs.m # 0, abs |-> abs]

SignedAdd(a, b) ==
    IF a.neg = b.neg THEN Signed(a.neg, F32Add(a.abs, b.abs))
    ELSE IF F32Le(b.abs, a.abs) THEN Signed(a.neg, F32Sub(a.abs, b.abs))
    ELSE Signed(b.neg, F32Sub(b.abs, a.abs))

SignedLe(a, b) ==
    IF a.neg THEN (~b.neg \/ F32Le(b.abs, a.abs)) ELSE (~b.neg /\ F32Le(a.abs, b.abs))

Degrees(neg, n, d) == Signed(neg, F32Lit(n, d))

\* f32::to_radians: self * (consts::PI / 180.0)
PI == [m |-> 13176795, e |-> -22]
RADS_PER_DEG == F32Div(PI, F32FromInt(180))
to_radians(angle) == Signed(angle.neg, F32Mul(angle.abs, RADS_PER_DEG))

\* the tenth of a degree the candidate stands for
NearestTenth(angle) ==
    (IF angle.neg THEN -1 ELSE 1)
    * F32Trunc(F32Add(F32Mul(angle.abs, F32FromInt(10)), F32Lit(1, 2)))

TrigScale == 10000000
\* sin and cos of 0.0, 0.1, .., 6.5 degrees, times TrigScale
SinTable ==
    <<0, 17453, 34907, 52360, 69813, 87265, 104718, 122170, 139622, 157073,
      174524, 191974, 209424, 226873, 244322, 261769, 279216, 296662, 314108,
      331552, 348995, 366437, 383878, 401318, 418757, 436194, 453630, 471065,
      488498, 505929, 523360, 540788, 558215, 575640, 593064, 610485, 627905,
      645323, 662739, 680153, 697565, 714974, 732382, 749787, 767190, 784591,
      801989, 819385, 836778, 854169, 871557, 888943, 906326, 923706, 941083,
      958458, 975829, 993197, 1010563, 1027925, 1045285, 1062641, 1079994,
      1097343, 1114689, 1132032>>
CosTable ==
    <<10000000, 9999985, 9999939, 9999863, 9999756, 9999619, 9999452,
      9999254, 9999025, 9998766, 9998477, 9998157, 9997807, 9997426, 9997015,
      9996573, 9996101, 9995599, 9995066, 9994502, 9993908, 9993284, 9992629,
      9991944, 9991228, 9990482, 9989706, 9988899, 9988061, 9987194, 9986295,
      9985367, 9984408, 9983418, 9982398, 9981348, 9980267, 9979156, 9978015,
      9976843, 9975641, 9974408, 9973145, 9971851, 9970528, 9969173, 9967789,
      9966374, 9964929, 9963453, 9961947, 9960411, 9958844, 9957247, 9955620,
      9953962, 9952274, 9950556, 9948807, 9947028, 9945219, 9943379, 9941510,
      9939610, 9937679, 9935719>>

SinTenth(t) == IF t < 0 THEN -SinTable[1 - t] ELSE SinTable[1 + t]
CosTenth(t) == IF t < 0 THEN CosTable[1 - t] ELSE CosTable[1 + t]

\* `as i32` of num / den: the fraction is dropped, toward zero
TruncDiv(num, den) == IF num >= 0 THEN num \div den ELSE -((-num) \div den)

\* new_y for the pixel <<x, y>>: dx = x - width / 2, dy = y - height / 2,
\* (dy * cos_a - dx * sin_a + cy) as i32
NewY(img, pixel, t) ==
    TruncDiv((2 * pixel[2] - img.height) * CosTenth(t)
             - (2 * pixel[1] - img.width) * SinTenth(t) + img.height * TrigScale,
             2 * TrigScale)

\* row_counts after the two loops
RowCounts(img, t) ==
    [row \in 0..(img.height - 1) |->
        Cardinality({q \in PixelsOf(img) : img.px[q] < 128 /\ NewY(img, q, t) = row})]

RECURSIVE SumCounts(_, _)
SumCounts(row_counts, row) ==
    IF row \notin DOMAIN row_counts THEN 0
    ELSE row_counts[row] + SumCounts(row_counts, row + 1)

\* (c as f32 - mean).powi(2)
SquaredDeviation(c, mean) ==
    IF F32Le(mean, c) THEN F32Mul(F32Sub(c, mean), F32Sub(c, mean))
    ELSE F32Mul(F32Sub(mean, c), F32Sub(mean, c))

\* .sum::<f32>() of the squared deviations, from the first row on
RECURSIVE SumDeviations(_, _, _, _)
SumDeviations(row_counts, mean, row, total) ==
    IF row \notin DOMAIN row_counts THEN total
    ELSE SumDeviations(row_counts, mean, row + 1,
                       F32Add(total, SquaredDeviation(F32FromInt(row_counts[row]), mean)))

VarianceOf(row_counts, mean, len) ==
    F32Div(SumDeviations(row_counts, mean, 0, F32Zero), F32FromInt(len))

ProjectionVariance(row_counts, len) ==
    VarianceOf(row_counts, F32Div(F32FromInt(SumCounts(row_counts, 0)), F32FromInt(len)), len)

compute_projection_variance(img, angle) ==
    ProjectionVariance(RowCounts(img, NearestTenth(angle)), img.height)

DeskewShapes == {<<8, 4>>, <<5, 3>>}

\* the image with the dark samples at the pixels in dark
DarkOnWhite(shape, dark) ==
    [width |-> shape[1], height |-> shape[2],
     px |-> [q \in (0..(shape[1] - 1)) \X (0..(shape[2] - 1)) |->
                IF q \in dark THEN 0 ELSE 255]]

\* the images whose samples are light and light enough: 128 at the pixels in
\* grey, 255 elsewhere
GreyOnWhite(shape, grey) ==
    [width |-> shape[1], height |-> shape[2],
     px |-> [q \in (0..(shape[1] - 1)) \X (0..(shape[2] - 1)) |->
                IF q \in grey THEN 128 ELSE 255]]

\* the images without a dark pixel, or with one horizontal run of them
DeskewImages ==
    UNION { {DarkOnWhite(shape, (x0..(x1 - 1)) \X {y}) :
                y \in 0..(shape[2] - 1), x0 \in 0..shape[1], x1 \in 0..shape[1]}
            \cup {GreyOnWhite(shape, (0..x1) \X (0..y)) :
                     y \in 0..(shape[2] - 1), x1 \in 0..(shape[1] - 1)} :
            shape \in DeskewShapes }

dkVars == <<dk_pc, dk_img, dk_angle, dk_best_angle, dk_best_variance, dk_tried, dk_result,
            dk_out>>

DeskewIdle ==
    /\ dk_pc = "idle" /\ dk_img = NoValue /\ dk_angle = NoValue /\ dk_best_angle = NoValue
    /\ dk_best_variance = NoValue /\ dk_tried = <<>> /\ dk_result = NoValue
    /\ dk_out = NoValue

\* detect_skew_angle is called on the gray image: best_angle = 0.0,
\* best_variance = 0.0, angle = -5.0
DeskewInit ==
    /\ dk_pc = "coarse" /\ dk_img \in DeskewImages
    /\ dk_angle = Degrees(TRUE, 5, 1) /\ dk_best_angle = Degrees(FALSE, 0, 1)
    /\ dk_best_variance = F32Zero /\ dk_tried = <<>> /\ dk_result = NoValue
    /\ dk_out = NoValue

\* a comparison that also takes a candidate of equal variance
Better_OrEqual(variance) == F32Le(dk_best_variance, variance)

\* if variance > best_variance
Better(variance) == F32Lt(dk_best_variance, variance)

\* the body of both loops for the candidate dk_angle with its variance
TryAngle(variance) ==
    /\ dk_tried' = Append(dk_tried, [angle |-> dk_angle, variance |-> variance])
    /\ IF Better(variance)
       THEN dk_best_variance' = variance /\ dk_best_angle' = dk_angle
       ELSE UNCHANGED <<dk_best_variance, dk_best_angle>>

\* one iteration of while angle <= 5.0
CoarseStep ==
    /\ dk_pc = "coarse" /\ SignedLe(dk_angle, Degrees(FALSE, 5, 1))
    /\ TryAngle(compute_projection_variance(dk_img, dk_angle))
    /\ dk_angle' = SignedAdd(dk_angle, Degrees(FALSE, 1, 2))
    /\ UNCHANGED <<dk_pc, dk_img, dk_result, dk_out>>

\* let mut refined_angle = best_angle - 0.5
StartRefine ==
    /\ dk_pc = "coarse" /\ ~SignedLe(dk_angle, Degrees(FALSE, 5, 1))
    /\ dk_angle' = SignedAdd(dk_best_angle, Degrees(TRUE, 1, 2))
    /\ dk_pc' = "refine"
    /\ UNCHANGED <<dk_img, dk_best_angle, dk_best_variance, dk_tried, dk_result, dk_out>>

\* one iteration of while refined_angle <= best_angle + 0.5
RefineStep ==
    /\ dk_pc = "refine"
    /\ SignedLe(dk_angle, SignedAdd(dk_best_angle, Degrees(FALSE, 1, 2)))
    /\ TryAngle(compute_projection_variance(dk_img, dk_angle))
    /\ dk_angle' = SignedAdd(dk_angle, Degrees(FALSE, 1, 10))
    /\ UNCHANGED <<dk_pc, dk_img, dk_result, dk_out>>

\* best_angle.to_radians()
ReturnAngle ==
    /\ dk_pc = "refine"
    /\ ~SignedLe(dk_angle, SignedAdd(dk_best_angle, Degrees(FALSE, 1, 2)))
    /\ dk_result' = to_radians(dk_best_angle)
    /\ dk_pc' = "done"
    /\ UNCHANGED <<dk_img, dk_angle, dk_best_angle, dk_best_variance, dk_tried, dk_out>>

\* angle.abs() < 0.1_f32.to_radians()
SkipRotation(angle) == F32Lt(angle.abs, to_radians(Degrees(FALSE, 1, 10)).abs)

\* deskew::apply after detect_skew_angle: the gray image when the angle is
\* under 0.1 degrees, else rotate_about_center(&gray, angle, Bilinear, Luma([255]))
ApplyReturn ==
    /\ dk_pc = "done"
    /\ dk_out' = IF SkipRotation(dk_result) THEN [kind |-> "gray", image |-> dk_img]
                 ELSE [kind |-> "rotated", of |-> dk_img, angle |-> dk_result]
    /\ dk_pc' = "returned"
    /\ UNCHANGED <<dk_img, dk_angle, dk_best_angle, dk_best_variance, dk_tried, dk_result>>

(***************************************************************************)
(* normalize::apply (steps/normalize.rs) on images with their samples.  An *)
(* image is [width, height, channels, samples], the samples row-major.     *)
(***************************************************************************)
F32_255 == F32FromInt(255)

\* the image crate's conversion of an RGB pixel to Luma, in integers
rgb_to_luma(r, g, b) == (2126 * r + 7152 * g + 722 * b) \div 10000

\* image.to_luma8()
to_luma8(img) ==
    IF img.channels = 1 THEN img
    ELSE [img EXCEPT !.channels = 1,
                     !.samples = [i \in 1..(img.width * img.height) |->
                                    rgb_to_luma(img.samples[3 * i - 2], img.samples[3 * i - 1],
                                                img.samples[3 * i])]]

\* the loop of find_min_max from sample i on
RECURSIVE MinMaxFrom(_, _, _, _)
MinMaxFrom(samples, i, min, max) ==
    IF i > Len(samples) THEN [min_val |-> min, max_val |-> max]
    ELSE MinMaxFrom(samples, i + 1, Min(min, samples[i]), Max(max, samples[i]))

find_min_max(img) == MinMaxFrom(img.samples, 1, 255, 0)

\* the stretch with 254.0 in place of 255.0
Stretched_To254(pixel, min_val, range) ==
    F32Trunc(F32Mul(F32Div(F32FromInt(pixel - min_val), range), F32FromInt(254)))

\* ((pixel - min_val) as f32 / range * 255.0) as u8
Stretched(pixel, min_val, range) ==
    F32Trunc(F32Mul(F32Div(F32FromInt(pixel - min_val), range), F32_255))

\* the sample values of the images normalized
NormalizeSamples == {0, 10, 11, 50, 128, 200, 255}
RgbSamples == {10, 11, 200}
\* the most pixels of a gray image and of an RGB image
MaxGrayPixels == 3
MaxRgbPixels == 2

\* the images of one row: gray images and RGB images
NormalizeImages ==
    UNION {{[width |-> n, height |-> 1, channels |-> 1, samples |-> s] :
               s \in [1..n -> NormalizeSamples]} : n \in 1..MaxGrayPixels}
    \cup UNION {{[width |-> n, height |-> 1, channels |-> 3, samples |-> s] :
                    s \in [1..(3 * n) -> RgbSamples]} : n \in 1..MaxRgbPixels}

nzVars == <<nz_pc, nz_in, nz_gray, nz_min_max, nz_out>>

NormalizeIdle ==
    /\ nz_pc = "idle" /\ nz_in = NoValue /\ nz_gray = NoValue /\ nz_min_max = NoValue
    /\ nz_out = NoValue

\* apply is called on an image
NormalizeInit ==
    /\ nz_pc = "gray"
    /\ nz_in \in NormalizeImages
    /\ nz_gray = NoValue /\ nz_min_max = NoValue /\ nz_out = NoValue

\* let gray = image.to_luma8()
ToGray ==
    /\ nz_pc = "gray"
    /\ nz_gray' = to_luma8(nz_in)
    /\ nz_pc' = "min_max"
    /\ UNCHANGED <<nz_in, nz_min_max, nz_out>>

\* let (min_val, max_val) = find_min_max(&gray)
FindMinMax ==
    /\ nz_pc = "min_max"
    /\ nz_min_max' = find_min_max(nz_gray)
    /\ nz_pc' = "branch"
    /\ UNCHANGED <<nz_in, nz_gray, nz_out>>

\* if max_val <= min_val { return Ok(DynamicImage::ImageLuma8(gray)) }
ReturnGray ==
    /\ nz_pc = "branch" /\ nz_min_max.max_val <= nz_min_max.min_val
    /\ nz_out' = nz_gray
    /\ nz_pc' = "done"
    /\ UNCHANGED <<nz_in, nz_gray, nz_min_max>>

\* GrayImage::from_fn(..) with range = (max_val - min_val) as f32
StretchTo(range) ==
    nz_out' = [nz_gray EXCEPT !.samples =
                  [i \in 1..Len(nz_gray.samples) |->
                      Stretched(nz_gray.samples[i], nz_min_max.min_val, range)]]

ReturnNormalized ==
    /\ nz_pc = "branch" /\ nz_min_max.max_val > nz_min_max.min_val
    /\ StretchTo(F32FromInt(nz_min_max.max_val - nz_min_max.min_val))
    /\ nz_pc' = "done"
    /\ UNCHANGED <<nz_in, nz_gray, nz_min_max>>

(***************************************************************************)
(* The HTTP server (server.rs) with the engine registry (engines/mod.rs)   *)
(* and Preset::from_str (preprocessing/pipeline.rs).  A string that is     *)
(* parsed is a sequence of characters.                                     *)
(***************************************************************************)
UpperCase == <<"A", "D", "E", "F", "G", "I", "L", "M", "N", "O", "R", "S", "T", "U", "V">>
LowerCase == <<"a", "d", "e", "f", "g", "i", "l", "m", "n", "o", "r", "s", "t", "u", "v">>

\* char::to_lowercase: U+0130 becomes i and a combining dot, the Kelvin sign k
CharToLowercase(c) ==
    IF \E i \in 1..Len(UpperCase) : UpperCase[i] = c
    THEN <<LowerCase[CHOOSE i \in 1..Len(UpperCase) : UpperCase[i] = c]>>
    ELSE IF c = "U+0130" THEN <<"i", "U+0307">>
    ELSE IF c = "U+212A" THEN <<"k">>
    ELSE <<c>>

\* str::to_lowercase
RECURSIVE to_lowercase(_)
to_lowercase(s) == IF s = <<>> THEN <<>> ELSE CharToLowercase(Head(s)) \o to_lowercase(Tail(s))

\* the characters of the four names matched and returned
CharsOfName(name) ==
    CASE name = "none"       -> <<"n", "o", "n", "e">>
      [] name = "minimal"    -> <<"m", "i", "n", "i", "m", "a", "l">>
      [] name = "default"    -> <<"d", "e", "f", "a", "u", "l", "t">>
      [] name = "aggressive" -> <<"a", "g", "g", "r", "e", "s", "s", "i", "v", "e">>

\* a from_str that matches the parameter as it is given
from_str_CaseSensitive(s) ==
    IF \E p \in Presets : CharsOfName(PresetAsStr(p)) = s
    THEN [preset |-> CHOOSE p \in Presets : CharsOfName(PresetAsStr(p)) = s]
    ELSE NoValue

\* Preset::from_str: Some(preset) as [preset |-> ..], None as NoValue
from_str(s) ==
    LET lower == to_lowercase(s)
    IN  IF lower = CharsOfName("none") THEN [preset |-> "None"]
        ELSE IF lower = CharsOfName("minimal") THEN [preset |-> "Minimal"]
        ELSE IF lower = CharsOfName("default") THEN [preset |-> "Default"]
        ELSE IF lower = CharsOfName("aggressive") THEN [preset |-> "Aggressive"]
        ELSE NoValue

\* the engines in the order EngineRegistry::new initialises them
EngineNames == <<"ocrs", "leptess">>

\* the cfg blocks of EngineRegistry::new from the i-th on: an engine of the
\* build's features is initialised; `?` returns its error, else it becomes
\* the default if there is none yet and is pushed
RECURSIVE InitEngines(_, _, _, _)
InitEngines(i, features, init_ok, reg) ==
    IF i > Len(EngineNames) THEN reg
    ELSE IF EngineNames[i] \notin features THEN InitEngines(i + 1, features, init_ok, reg)
    ELSE IF EngineNames[i] \notin init_ok THEN [kind |-> "err", error |-> "InitializationError"]
    ELSE InitEngines(i + 1, features, init_ok,
                     [reg EXCEPT !.engines = Append(@, EngineNames[i]),
                                 !.default_engine = IF @ = "" THEN EngineNames[i] ELSE @])

\* a registry whose default is the engine initialised last
EngineRegistryNew_LastIsDefault(features, init_ok) ==
    LET reg == InitEngines(1, features, init_ok,
                           [kind |-> "ok", engines |-> <<>>, default_engine |-> ""])
    IN  IF reg.kind = "err" THEN reg
        ELSE IF reg.engines = <<>> THEN [kind |-> "err", error |-> "InitializationError"]
        ELSE [reg EXCEPT !.default_engine = reg.engines[Len(reg.engines)]]

\* EngineRegistry::new
EngineRegistryNew(features, init_ok) ==
    LET reg == InitEngines(1, features, init_ok,
                           [kind |-> "ok", engines |-> <<>>, default_engine |-> ""])
    IN  IF reg.kind = "err" THEN reg
        ELSE IF reg.engines = <<>> THEN [kind |-> "err", error |-> "InitializationError"]
        ELSE reg

\* EngineRegistry::get: the first engine of that name, as [engine |-> name]
RegistryGet(reg, name) ==
    IF \E i \in 1..Len(reg.engines) : reg.engines[i] = name
    THEN [engine |-> reg.engines[CHOOSE i \in 1..Len(reg.engines) :
                                    /\ reg.engines[i] = name
                                    /\ \A j \in 1..(i - 1) : reg.engines[j] # name]]
    ELSE NoValue

\* EngineRegistry::default and EngineRegistry::list
RegistryDefault(reg) == RegistryGet(reg, reg.default_engine)
RegistryList(reg) == reg.engines

\* the builds and the engines whose initialisation succeeds
Environments ==
    {[features |-> f, init_ok |-> ok] :
        f \in SUBSET {EngineNames[i] : i \in 1..Len(EngineNames)},
        ok \in SUBSET {EngineNames[i] : i \in 1..Len(EngineNames)}}

\* the values of the preprocess query parameter
PreprocessValues ==
    {CharsOfName(PresetAsStr(p)) : p \in Presets}
    \cup { <<"N", "O", "N", "E">>, <<"N", "o", "n", "e">>, <<"M", "i", "n", "i", "m", "a", "l">>,
           <<"D", "E", "F", "A", "U", "L", "T">>,
           <<"A", "g", "g", "r", "e", "s", "s", "i", "v", "e">>,
           <<>>, <<"a", "u", "t", "o">>, <<"d", "e", "f", "a", "u", "l", "t", " ">>,
           <<"m", "U+0130", "n", "i", "m", "a", "l">> }

\* the file field of the multipart body: its content type ("" when it has
\* none), how its bytes start, and whether they exceed max_file_size
Files ==
    {[present |-> FALSE, content_type |-> "", magic |-> "", too_large |-> FALSE]}
    \cup {[present |-> TRUE, content_type |-> ct, magic |-> mg, too_large |-> tl] :
            ct \in {"", "application/pdf", "image/png"},
            mg \in {"%PDF-", "image", "other"}, tl \in BOOLEAN}

\* the requests: POST /ocr and POST /ocr/:engine
Requests ==
    {[route |-> "/ocr", engine_name |-> "", multipart_ok |-> mp, file |-> f,
      preprocess |-> pre] :
        mp \in BOOLEAN, f \in Files,
        pre \in {[given |-> FALSE, value |-> <<>>]}
                \cup {[given |-> TRUE, value |-> v] : v \in PreprocessValues}}
    \cup {[route |-> "/ocr/:engine", engine_name |-> e, multipart_ok |-> mp, file |-> f,
           preprocess |-> pre] :
            e \in {"ocrs", "leptess", "OCRS", "tesseract"},
            mp \in BOOLEAN, f \in Files,
            pre \in {[given |-> FALSE, value |-> <<>>]}
                    \cup {[given |-> TRUE, value |-> v] : v \in PreprocessValues}}

svVars == <<sv_pc, sv_env, sv_registry, sv_request, sv_engine, sv_preset, sv_preprocessed,
            sv_calls, sv_response>>

ServerIdle ==
    /\ sv_pc = "idle" /\ sv_env = NoValue /\ sv_registry = NoValue /\ sv_request = NoValue
    /\ sv_engine = "" /\ sv_preset = "" /\ sv_preprocessed = NoValue
    /\ sv_calls = <<>> /\ sv_response = NoValue

\* server::run is called
ServerInit ==
    /\ sv_pc = "start" /\ sv_env \in Environments /\ sv_registry = NoValue
    /\ sv_request = NoValue /\ sv_engine = "" /\ sv_preset = "" /\ sv_preprocessed = NoValue
    /\ sv_calls = <<>> /\ sv_response = NoValue

\* let registry = EngineRegistry::new(&config)?: run returns the error, or
\* the server starts to serve
RegistryNew ==
    /\ sv_pc = "start"
    /\ sv_registry' = EngineRegistryNew(sv_env.features, sv_env.init_ok)
    /\ sv_pc' = IF sv_registry'.kind = "ok" THEN "serving" ELSE "exited"
    /\ UNCHANGED <<sv_env, sv_request, sv_engine, sv_preset, sv_preprocessed, sv_calls,
                   sv_response>>

\* the handler returns Err(error)
Fail(error) ==
    /\ sv_response' = [kind |-> "err", error |-> error]
    /\ sv_pc' = "responded"

\* handle_ocr and handle_ocr_with_engine up to the call of
\* process_ocr_request, with the engine found
SelectEngine(req, found, error) ==
    /\ sv_pc = "serving"
    /\ sv_request' = req
    /\ IF found = NoValue
       THEN Fail(error) /\ UNCHANGED sv_engine
       ELSE sv_engine' = found.engine /\ sv_pc' = "multipart" /\ UNCHANGED sv_response
    /\ UNCHANGED <<sv_env, sv_registry, sv_preset, sv_preprocessed, sv_calls>>

handle_ocr ==
    \E req \in Requests :
        /\ req.route = "/ocr"
        /\ SelectEngine(req, RegistryDefault(sv_registry), "InitializationError")

handle_ocr_with_engine ==
    \E req \in Requests :
        /\ req.route = "/ocr/:engine"
        /\ SelectEngine(req, RegistryGet(sv_registry, req.engine_name), "InvalidRequest")

\* process_ocr_request: the multipart loop, the file and the size check
ReadMultipart ==
    /\ sv_pc = "multipart"
    /\ IF ~sv_request.multipart_ok THEN Fail("InvalidRequest")
       ELSE IF ~sv_request.file.present THEN Fail("MissingFile")
       ELSE IF sv_request.file.too_large THEN Fail("ImageTooLarge")
       ELSE sv_pc' = "preset" /\ UNCHANGED sv_response
    /\ UNCHANGED <<sv_env, sv_registry, sv_request, sv_engine, sv_preset, sv_preprocessed,
                   sv_calls>>

\* content_type.unwrap_or_else(|| "application/octet-stream".to_string())
Mime(file) == IF file.content_type = "" THEN "application/octet-stream" ELSE file.content_type

\* mime == "application/pdf" || data.starts_with(b"%PDF-")
IsPdf(file) == Mime(file) = "application/pdf" \/ file.magic = "%PDF-"

\* the preset of the preprocess parameter, Preset::Default without one
DeterminePreset ==
    /\ sv_pc = "preset"
    /\ LET parsed == IF sv_request.preprocess.given
                     THEN from_str(sv_request.preprocess.value)
                     ELSE [preset |-> "Default"]
       IN  IF parsed = NoValue
           THEN Fail("InvalidRequest") /\ UNCHANGED sv_preset
           ELSE /\ sv_preset' = parsed.preset
                /\ sv_pc' = IF IsPdf(sv_request.file) THEN "pdf" ELSE "image"
                /\ UNCHANGED sv_response
    /\ UNCHANGED <<sv_env, sv_registry, sv_request, sv_engine, sv_preprocessed, sv_calls>>

\* Ok(Json(OcrResponse { .., engine: engine_name, preprocessing }))
Respond(stats) ==
    /\ sv_response' = [kind |-> "ok", engine |-> sv_engine, preprocessing |-> stats]
    /\ sv_pc' = "responded"

CallOf(name) == [call |-> name, engine |-> ""]
EngineCall(name) == [call |-> name, engine |-> sv_engine]

\* the PDF branch: the bytes go to a temporary file and engine.process(path)
ProcessPdfFile ==
    /\ sv_pc = "pdf"
    /\ \E temp_ok \in BOOLEAN, engine_ok \in BOOLEAN :
         IF ~temp_ok
         THEN /\ sv_calls' = Append(sv_calls, CallOf("tempfile"))
              /\ Fail("Internal")
         ELSE /\ sv_calls' = sv_calls \o <<CallOf("tempfile"), EngineCall("process")>>
              /\ IF engine_ok THEN Respond(NoValue) ELSE Fail("ProcessingError")
    /\ UNCHANGED <<sv_env, sv_registry, sv_request, sv_engine, sv_preset, sv_preprocessed>>

\* image::load_from_memory(&data)
LoadImage ==
    /\ sv_pc = "image"
    /\ sv_calls' = Append(sv_calls, CallOf("load_from_memory"))
    /\ \E ok \in (IF sv_request.file.magic = "image" THEN BOOLEAN ELSE {FALSE}) :
         IF ok THEN sv_pc' = "preprocess" /\ UNCHANGED sv_response
         ELSE Fail("PreprocessingError")
    /\ UNCHANGED <<sv_env, sv_registry, sv_request, sv_engine, sv_preset, sv_preprocessed>>

\* Pipeline::new(preset).process(image): the steps never fail
Preprocess ==
    /\ sv_pc = "preprocess"
    /\ sv_calls' = Append(sv_calls, CallOf("Pipeline::process"))
    /\ \E ok \in UNION {StepFnResults(name) : name \in {"grayscale", "resize", "denoise",
                            "normalize", "sharpen", "deskew", "threshold"}} :
         IF ok
         THEN /\ sv_preprocessed' = [preset |-> PresetAsStr(sv_preset)]
              /\ sv_pc' = "recognise" /\ UNCHANGED sv_response
         ELSE Fail("PreprocessingError") /\ UNCHANGED sv_preprocessed
    /\ UNCHANGED <<sv_env, sv_registry, sv_request, sv_engine, sv_preset>>

\* statistics for every image, whatever the preset
PreprocessingStats_Always(preset, result) == [preset |-> result.preset]

\* if preset != Preset::None { Some(PreprocessingStats { .. }) } else { None }
PreprocessingStats(preset, result) == IF preset # "None" THEN [preset |-> result.preset] ELSE NoValue

\* engine.process_image(&preprocess_result.image)? and the response
Recognise ==
    /\ sv_pc = "recognise"
    /\ sv_calls' = Append(sv_calls, EngineCall("process_image"))
    /\ \E engine_ok \in BOOLEAN :
         IF engine_ok THEN Respond(PreprocessingStats(sv_preset, sv_preprocessed))
         ELSE Fail("ProcessingError")
    /\ UNCHANGED <<sv_env, sv_registry, sv_request, sv_engine, sv_preset, sv_preprocessed>>

(***************************************************************************)
(* The model cache of the ocrs engine (engines/ocrs.rs): OcrsEngine::new   *)
(* in two server processes that share the cache directory.  A file is the  *)
(* sequence of its blocks, "data" where a block of the model was written   *)
(* and "hole" where a write at a later offset left a gap.                  *)
(***************************************************************************)
\* the blocks of a model file: the writes that write_all needs
ModelBlocks == 2

Procs == {1, 2}

\* the files in the order OcrsEngine::new ensures and loads them
ModelFiles == <<"text-detection.rten", "text-recognition.rten">>

NoFile == [exists |-> FALSE, blocks |-> <<>>]

Complete(blocks) ==
    Len(blocks) = ModelBlocks /\ \A i \in 1..Len(blocks) : blocks[i] = "data"

dlVars == <<dl_fs, dl_proc>>

DownloadIdle == dl_fs = NoValue /\ dl_proc = NoValue

\* both processes enter OcrsEngine::new with an empty cache
DownloadInit ==
    /\ dl_fs = [f \in {ModelFiles[i] : i \in 1..Len(ModelFiles)} |-> NoFile]
    /\ dl_proc = [p \in Procs |->
                    [pc |-> "exists", k |-> 1, offset |-> 0, created |-> {}, cached |-> {},
                     loaded |-> <<>>, error |-> NoValue]]

FileOf(p) == ModelFiles[dl_proc[p].k]

\* the processes that have created the file and not finished download_file
Writers(file) ==
    {q \in Procs : /\ dl_proc[q].pc \in {"read", "write"}
                   /\ ModelFiles[dl_proc[q].k] = file}

\* `?` on an Err: OcrsEngine::new returns the InitializationError
Failing(p, step) ==
    [dl_proc EXCEPT ![p].pc = "failed", ![p].error = [step |-> step, file |-> FileOf(p)]]

\* ensure_model_downloaded returns Ok(model_path): the next model is
\* ensured, and after the last the models are loaded from the first on
Ensured(proc, p) ==
    IF proc[p].k < Len(ModelFiles)
    THEN [proc EXCEPT ![p].pc = "exists", ![p].k = @ + 1, ![p].offset = 0]
    ELSE [proc EXCEPT ![p].pc = "load", ![p].k = 1, ![p].offset = 0]

\* ensure_model_downloaded up to the test: create_dir_all, then
\* if !model_path.exists()
CheckExists(p) ==
    /\ dl_proc[p].pc = "exists"
    /\ \E dir_ok \in BOOLEAN :
         dl_proc' =
            IF ~dir_ok THEN Failing(p, "create_dir_all")
            ELSE IF dl_fs[FileOf(p)].exists
            THEN Ensured([dl_proc EXCEPT ![p].cached =
                              @ \cup {[file |-> FileOf(p), blocks |-> dl_fs[FileOf(p)].blocks,
                                       writers |-> Writers(FileOf(p))]}], p)
            ELSE [dl_proc EXCEPT ![p].pc = "request"]
    /\ UNCHANGED dl_fs

\* download_file: ureq::get(url).call()
Request(p) ==
    /\ dl_proc[p].pc = "request"
    /\ \E ok \in BOOLEAN :
         dl_proc' = IF ok THEN [dl_proc EXCEPT ![p].pc = "create"] ELSE Failing(p, "request")
    /\ UNCHANGED dl_fs

\* download_file: File::create(path) creates the file at the cache path, or
\* truncates the one that is there
Create(p) ==
    /\ dl_proc[p].pc = "create"
    /\ \E ok \in BOOLEAN :
         IF ok
         THEN /\ dl_fs' = [dl_fs EXCEPT ![FileOf(p)] = [exists |-> TRUE, blocks |-> <<>>]]
              /\ dl_proc' = [dl_proc EXCEPT ![p].pc = "read", ![p].offset = 0,
                                            ![p].created = @ \cup {FileOf(p)}]
         ELSE /\ dl_proc' = Failing(p, "create")
              /\ UNCHANGED dl_fs

\* download_file: response.into_body().read_to_vec()
ReadBody(p) ==
    /\ dl_proc[p].pc = "read"
    /\ \E ok \in BOOLEAN :
         dl_proc' = IF ok THEN [dl_proc EXCEPT ![p].pc = "write"] ELSE Failing(p, "read")
    /\ UNCHANGED dl_fs

\* the blocks after a write of one block at the offset, past the end of the
\* file or not
WrittenAt(blocks, offset) ==
    [i \in 1..Max(Len(blocks), offset + 1) |->
        IF i = offset + 1 THEN "data" ELSE IF i <= Len(blocks) THEN blocks[i] ELSE "hole"]

\* Model::load_file on the file's content: a complete model loads, an empty
\* file does not, and a file with some of the blocks may or may not
LoadResults(blocks) ==
    IF Complete(blocks) THEN {TRUE} ELSE IF blocks = <<>> THEN {FALSE} ELSE BOOLEAN

\* download_file: one write of file.write_all(&buffer), and after the
\* last the return of Ok(())
WriteBlock(p) ==
    /\ dl_proc[p].pc = "write"
    /\ \E ok \in BOOLEAN :
         IF ok
         THEN /\ dl_fs' = [dl_fs EXCEPT ![FileOf(p)].blocks = WrittenAt(@, dl_proc[p].offset)]
              /\ dl_proc' = IF dl_proc[p].offset + 1 = ModelBlocks
                            THEN Ensured(dl_proc, p)
                            ELSE [dl_proc EXCEPT ![p].offset = @ + 1]
         ELSE /\ dl_proc' = Failing(p, "write")
              /\ UNCHANGED dl_fs

\* Model::load_file(&path) of the detection and then the recognition model
LoadFile(p) ==
    /\ dl_proc[p].pc = "load"
    /\ \E ok \in LoadResults(dl_fs[FileOf(p)].blocks) :
         LET loaded == [dl_proc EXCEPT ![p].loaded =
                           Append(@, [file |-> FileOf(p), blocks |-> dl_fs[FileOf(p)].blocks,
                                      writers |-> Writers(FileOf(p))])]
         IN  dl_proc' =
                IF ~ok THEN [loaded EXCEPT ![p].pc = "failed",
                                           ![p].error = [step |-> "load", file |-> FileOf(p)]]
                ELSE IF dl_proc[p].k < Len(ModelFiles) THEN [loaded EXCEPT ![p].k = @ + 1]
                ELSE [loaded EXCEPT ![p].pc = "ready"]
    /\ UNCHANGED dl_fs

(***************************************************************************)
(* The specifications.                                                     *)
(***************************************************************************)
cfVars == <<cf_text, cf_score>>
rsVars == <<rs_in, rs_out>>
vars == <<plVars, cfVars, rsVars, pxVars, thVars, ppVars, dkVars, dsVars, nzVars, svVars, dlVars>>

PipelineIdle == /\ now = 0 /\ pl_pc = "idle" /\ pl_preset = "None"
                /\ pl_input = NoValue /\ pl_img = NoValue /\ pl_start = 0
                /\ pl_timings = <<>> /\ pl_invoked = <<>> /\ pl_result = NoValue
ConfidenceIdle == cf_text = <<>> /\ cf_score = NoValue
ResizeIdle == rs_in = NoValue /\ rs_out = NoValue

otherThanPipeline == <<cfVars, rsVars, pxVars, thVars, ppVars, dkVars, dsVars, nzVars, svVars, dlVars>>

\* Pipeline::process with the step functions of preprocessing/steps
Init == PipelineInit /\ ConfidenceIdle /\ ResizeIdle /\ ExtractionIdle /\ ThresholdIdle /\ ProcessPdfIdle
    /\ DeskewIdle /\ DecodeIdle /\ NormalizeIdle /\ ServerIdle /\ DownloadIdle
Next ==
    \/ ProcessCall /\ UNCHANGED otherThanPipeline
    \/ Step_grayscale /\ UNCHANGED otherThanPipeline
    \/ Step_resize /\ UNCHANGED otherThanPipeline
    \/ Step_denoise /\ UNCHANGED otherThanPipeline
    \/ Step_normalize /\ UNCHANGED otherThanPipeline
    \/ Step_sharpen /\ UNCHANGED otherThanPipeline
    \/ Step_deskew /\ UNCHANGED otherThanPipeline
    \/ Step_threshold /\ UNCHANGED otherThanPipeline
    \/ ReturnMinimal /\ UNCHANGED otherThanPipeline
    \/ ReturnFinal /\ UNCHANGED otherThanPipeline
Spec == Init /\ [][Next]_vars

\* Pipeline::process with step functions that may fail
NextStepFn ==
    \/ ProcessCall /\ UNCHANGED otherThanPipeline
    \/ AnyStep_grayscale /\ UNCHANGED otherThanPipeline
    \/ AnyStep_resize /\ UNCHANGED otherThanPipeline
    \/ AnyStep_denoise /\ UNCHANGED otherThanPipeline
    \/ AnyStep_normalize /\ UNCHANGED otherThanPipeline
    \/ AnyStep_sharpen /\ UNCHANGED otherThanPipeline
    \/ AnyStep_deskew /\ UNCHANGED otherThanPipeline
    \/ AnyStep_threshold /\ UNCHANGED otherThanPipeline
    \/ ReturnMinimal /\ UNCHANGED otherThanPipeline
    \/ ReturnFinal /\ UNCHANGED otherThanPipeline
SpecStepFn == Init /\ [][NextStepFn]_vars

\* the scoring of a recognised text
InitConfidence ==
    PipelineIdle /\ ConfidenceInit /\ ResizeIdle /\ ExtractionIdle /\ ThresholdIdle /\ ProcessPdfIdle
    /\ DeskewIdle /\ DecodeIdle /\ NormalizeIdle /\ ServerIdle /\ DownloadIdle
NextConfidence == Score /\ UNCHANGED <<plVars, rsVars, pxVars, thVars, ppVars, dkVars, dsVars, nzVars, svVars, dlVars>>
SpecConfidence == InitConfidence /\ [][NextConfidence]_vars

\* extract_images_from_pdf
otherThanExtraction == <<plVars, cfVars, rsVars, thVars, ppVars, dkVars, dsVars, nzVars, svVars, dlVars>>
InitExtraction ==
    PipelineIdle /\ ConfidenceIdle /\ ResizeIdle /\ ExtractionInit /\ ThresholdIdle /\ ProcessPdfIdle
    /\ DeskewIdle /\ DecodeIdle /\ NormalizeIdle /\ ServerIdle /\ DownloadIdle
NextExtraction ==
    \/ LoadDocument /\ UNCHANGED otherThanExtraction
    \/ VisitObject /\ UNCHANGED otherThanExtraction
    \/ ReturnImages /\ UNCHANGED otherThanExtraction
SpecExtraction == InitExtraction /\ [][NextExtraction]_vars

\* resize::apply
InitResize ==
    PipelineIdle /\ ConfidenceIdle /\ ResizeInit /\ ExtractionIdle /\ ThresholdIdle /\ ProcessPdfIdle
    /\ DeskewIdle /\ DecodeIdle /\ NormalizeIdle /\ ServerIdle /\ DownloadIdle
NextResize == ResizeReturn /\ UNCHANGED <<plVars, cfVars, pxVars, thVars, ppVars, dkVars, dsVars, nzVars, svVars, dlVars>>
SpecResize == InitResize /\ [][NextResize]_vars

\* sauvola_threshold
otherThanThreshold == <<plVars, cfVars, rsVars, pxVars, ppVars, dkVars, dsVars, nzVars, svVars, dlVars>>
InitThreshold ==
    PipelineIdle /\ ConfidenceIdle /\ ResizeIdle /\ ExtractionIdle /\ ThresholdInit /\ ProcessPdfIdle
    /\ DeskewIdle /\ DecodeIdle /\ NormalizeIdle /\ ServerIdle /\ DownloadIdle
NextThreshold ==
    \/ ComputeIntegralImages /\ UNCHANGED otherThanThreshold
    \/ FromFn /\ UNCHANGED otherThanThreshold
SpecThreshold == InitThreshold /\ [][NextThreshold]_vars

\* process_pdf, with the extraction it calls
otherThanProcessPdf == <<plVars, cfVars, rsVars, thVars, dkVars, dsVars, nzVars, svVars, dlVars>>
InitProcessPdf ==
    PipelineIdle /\ ConfidenceIdle /\ ResizeIdle /\ ThresholdIdle /\ ProcessPdfInit /\ DeskewIdle /\ DecodeIdle /\ NormalizeIdle /\ ServerIdle /\ DownloadIdle
NextProcessPdf ==
    \/ ExtractText /\ UNCHANGED otherThanProcessPdf
    \/ LoadDocument /\ UNCHANGED <<otherThanProcessPdf, ppVars>>
    \/ VisitObject /\ UNCHANGED <<otherThanProcessPdf, ppVars>>
    \/ ReturnImages /\ UNCHANGED <<otherThanProcessPdf, ppVars>>
    \/ ImagesExtracted /\ UNCHANGED otherThanProcessPdf
    \/ RecogniseImage /\ UNCHANGED otherThanProcessPdf
    \/ ReturnCombined /\ UNCHANGED otherThanProcessPdf
SpecProcessPdf == InitProcessPdf /\ [][NextProcessPdf]_vars

\* detect_skew_angle
otherThanDeskew == <<plVars, cfVars, rsVars, pxVars, thVars, ppVars, dsVars, nzVars, svVars, dlVars>>
InitDeskew ==
    /\ PipelineIdle /\ ConfidenceIdle /\ ResizeIdle /\ ExtractionIdle /\ ThresholdIdle
    /\ ProcessPdfIdle /\ DeskewInit /\ DecodeIdle /\ NormalizeIdle /\ ServerIdle /\ DownloadIdle
NextDeskew ==
    \/ CoarseStep /\ UNCHANGED otherThanDeskew
    \/ StartRefine /\ UNCHANGED otherThanDeskew
    \/ RefineStep /\ UNCHANGED otherThanDeskew
    \/ ReturnAngle /\ UNCHANGED otherThanDeskew
    \/ ApplyReturn /\ UNCHANGED otherThanDeskew
SpecDeskew == InitDeskew /\ [][NextDeskew]_vars

InitDecode ==
    /\ PipelineIdle /\ ConfidenceIdle /\ ResizeIdle /\ ExtractionIdle /\ ThresholdIdle
    /\ ProcessPdfIdle /\ DeskewIdle /\ DecodeInit /\ NormalizeIdle /\ ServerIdle /\ DownloadIdle
NextDecode ==
    DecodeStream /\ UNCHANGED <<plVars, cfVars, rsVars, pxVars, thVars, ppVars, dkVars, nzVars, svVars, dlVars>>
SpecDecode == InitDecode /\ [][NextDecode]_vars

InitNormalize ==
    /\ PipelineIdle /\ ConfidenceIdle /\ ResizeIdle /\ ExtractionIdle /\ ThresholdIdle
    /\ ProcessPdfIdle /\ DeskewIdle /\ DecodeIdle /\ NormalizeInit /\ ServerIdle /\ DownloadIdle
NextNormalize ==
    \/ ToGray /\ UNCHANGED <<plVars, cfVars, rsVars, pxVars, thVars, ppVars, dkVars, dsVars, svVars, dlVars>>
    \/ FindMinMax /\ UNCHANGED <<plVars, cfVars, rsVars, pxVars, thVars, ppVars, dkVars, dsVars, svVars, dlVars>>
    \/ ReturnGray /\ UNCHANGED <<plVars, cfVars, rsVars, pxVars, thVars, ppVars, dkVars, dsVars, svVars, dlVars>>
    \/ ReturnNormalized
       /\ UNCHANGED <<plVars, cfVars, rsVars, pxVars, thVars, ppVars, dkVars, dsVars, svVars, dlVars>>
SpecNormalize == InitNormalize /\ [][NextNormalize]_vars

\* one server process from start-up to the response to one request
otherThanServer == <<plVars, cfVars, rsVars, pxVars, thVars, ppVars, dkVars, dsVars, nzVars, dlVars>>
InitServer ==
    /\ PipelineIdle /\ ConfidenceIdle /\ ResizeIdle /\ ExtractionIdle /\ ThresholdIdle
    /\ ProcessPdfIdle /\ DeskewIdle /\ DecodeIdle /\ NormalizeIdle /\ ServerInit /\ DownloadIdle
NextServer ==
    \/ RegistryNew /\ UNCHANGED otherThanServer
    \/ handle_ocr /\ UNCHANGED otherThanServer
    \/ handle_ocr_with_engine /\ UNCHANGED otherThanServer
    \/ ReadMultipart /\ UNCHANGED otherThanServer
    \/ DeterminePreset /\ UNCHANGED otherThanServer
    \/ ProcessPdfFile /\ UNCHANGED otherThanServer
    \/ LoadImage /\ UNCHANGED otherThanServer
    \/ Preprocess /\ UNCHANGED otherThanServer
    \/ Recognise /\ UNCHANGED otherThanServer
SpecServer == InitServer /\ [][NextServer]_vars

\* OcrsEngine::new in two processes
otherThanDownload ==
    <<plVars, cfVars, rsVars, pxVars, thVars, ppVars, dkVars, dsVars, nzVars, svVars>>
InitDownload ==
    /\ PipelineIdle /\ ConfidenceIdle /\ ResizeIdle /\ ExtractionIdle /\ ThresholdIdle
    /\ ProcessPdfIdle /\ DeskewIdle /\ DecodeIdle /\ NormalizeIdle /\ ServerIdle
    /\ DownloadInit
NextDownload ==
    \/ \E p \in Procs : CheckExists(p) /\ UNCHANGED otherThanDownload
    \/ \E p \in Procs : Request(p) /\ UNCHANGED otherThanDownload
    \/ \E p \in Procs : Create(p) /\ UNCHANGED otherThanDownload
    \/ \E p \in Procs : ReadBody(p) /\ UNCHANGED otherThanDownload
    \/ \E p \in Procs : WriteBlock(p) /\ UNCHANGED otherThanDownload
    \/ \E p \in Procs : LoadFile(p) /\ UNCHANGED otherThanDownload
SpecDownload == InitDownload /\ [][NextDownload]_vars

(***************************************************************************)
(* Properties of Pipeline::process.                                        *)
(***************************************************************************)
SeqMap(Op(_), s) == [i \in 1..Len(s) |-> Op(s[i])]
IsPrefix(s, t) == Len(s) <= Len(t) /\ \A i \in 1..Len(s) : s[i] = t[i]
StepOf(call) == call.step
NameOf(timing) == timing.name

\* the step sequence of each preset, and its lower-case name
PresetSteps(p) ==
    CASE p = "None"       -> <<>>
      [] p = "Minimal"    -> <<"grayscale">>
      [] p = "Default"    -> <<"grayscale", "resize", "normalize", "sharpen">>
      [] p = "Aggressive" -> <<"grayscale", "resize", "denoise", "normalize", "sharpen",
                               "deskew", "threshold">>
PresetLowerCase(p) ==
    CASE p = "None"       -> "none"
      [] p = "Minimal"    -> "minimal"
      [] p = "Default"    -> "default"
      [] p = "Aggressive" -> "aggressive"

\* C1: the steps are invoked in the preset's order, none skipped, repeated or
\* reordered: at any moment the calls made are a prefix of the preset's
\* sequence, and a call of process in which every step succeeded has invoked
\* exactly the preset's sequence, returns one StepTiming per step in that
\* order, and names the preset in lower case.
C1_StepOrder ==
    /\ IsPrefix(SeqMap(StepOf, pl_invoked), PresetSteps(pl_preset))
    /\ (pl_pc = "returned" /\ pl_result.kind = "ok") =>
          /\ SeqMap(StepOf, pl_invoked) = PresetSteps(pl_preset)
          /\ SeqMap(NameOf, pl_result.steps) = PresetSteps(pl_preset)
          /\ pl_result.preset = PresetLowerCase(pl_preset)

C1_Witness ==
    /\ pl_pc = "returned" /\ pl_result.kind = "ok"
    /\ pl_preset = "Aggressive" /\ Len(pl_result.steps) = 7

\* C2: when a step fails, process has returned an error and nothing else: no
\* image, no timings; no step after the failing one was invoked, and the
\* failing step has no StepTiming.
C2_FailureAborts ==
    \A i \in 1..Len(pl_invoked) :
        ~pl_invoked[i].ok =>
            /\ i = Len(pl_invoked)
            /\ pl_pc = "returned"
            /\ pl_result = [kind |-> "err", step |-> pl_invoked[i].step]
            /\ \A k \in 1..Len(pl_timings) : pl_timings[k].name # pl_invoked[i].step

C2_Witness ==
    /\ pl_pc = "returned" /\ pl_result.kind = "err"
    /\ pl_preset = "Aggressive" /\ Len(pl_invoked) = 3 /\ ~pl_invoked[3].ok

\* C3: with Preset::None process returns the image it was given, untouched,
\* with total_time_ms = 0, preset "none" and no steps, and calls no step.
C3_NoneIsIdentity ==
    pl_preset = "None" =>
        /\ pl_invoked = <<>>
        /\ pl_pc = "returned" =>
              pl_result = [kind |-> "ok", image |-> pl_input, total_time_ms |-> 0,
                           preset |-> "none", steps |-> <<>>]

C3_Witness ==
    /\ pl_preset = "None" /\ pl_pc = "returned"
    /\ pl_input.channels = 3 /\ pl_result.image = pl_input

(***************************************************************************)
(* Properties of the confidence scorer.                                    *)
(***************************************************************************)
InUnitInterval(x) == F32Le(F32Zero, x) /\ F32Le(x, F32One)

\* 0.40 * c + 0.30 * w + 0.15 * s + 0.15 * r, clamped to [0, 1]
ClampedWeighting(c, w, s, r) ==
    F32Min(F32One,
           F32Add(F32Add(F32Add(F32Mul(F32_0_40, c), F32Mul(F32_0_30, w)),
                         F32Mul(F32_0_15, s)),
                  F32Mul(F32_0_15, r)))

ScoredBy(char, word, whitespace, repetition) ==
    /\ InUnitInterval(char) /\ InUnitInterval(word)
    /\ InUnitInterval(whitespace) /\ InUnitInterval(repetition)
    /\ cf_score = ClampedWeighting(char, word, whitespace, repetition)

\* C4: every text's score lies in [0, 1]; a text that reaches the heuristics
\* (five bytes or more) scores 0.40 char + 0.30 word + 0.15 whitespace +
\* 0.15 repetition clamped to [0, 1], each sub-score lying in [0, 1].
C4_ScoreInUnitInterval ==
    cf_score # NoValue =>
        /\ InUnitInterval(cf_score)
        /\ StrLen(cf_text) >= 5 =>
               ScoredBy(analyze_char_frequency(cf_text), analyze_word_lengths(cf_text),
                        analyze_whitespace(cf_text), detect_repetition(cf_text))

\* a text of a letter, a space, a full stop and two symbols has been scored by
\* the heuristics, strictly between 0 and 1
C4_Witness ==
    /\ cf_text = <<"a", " ", ".", "U+00A7", "U+00A7">>
    /\ cf_score # NoValue
    /\ F32Lt(F32Zero, cf_score) /\ F32Lt(cf_score, F32One)

\* C9: every non-empty text of fewer than five characters scores exactly 0.5.
\* The code compares the length in bytes, so this fails for a short text
\* with characters of more than one byte.
C9_ShortTextScoresHalf ==
    (cf_score # NoValue /\ Len(cf_text) >= 1 /\ Len(cf_text) < 5) => cf_score = F32_0_50

\* three two-byte symbols, six bytes, have been scored by the heuristics:
\* 0.40 * 0 + 0.30 * 1 + 0.15 * 0.5 + 0.15 * 1, which is not 0.5
C9_Witness ==
    /\ cf_text = <<"U+00A7", "U+00A7", "U+00A7">>
    /\ cf_score = ClampedWeighting(F32Zero, F32One, F32_0_50, F32One)
    /\ cf_score # F32_0_50

(***************************************************************************)
(* Properties of PDF image extraction.                                     *)
(***************************************************************************)
\* the buffers of the objects from position i on: one for each image stream
\* that extract_image_from_stream decodes, none for any other object
RECURSIVE DecodedFrom(_, _)
DecodedFrom(objects, i) ==
    IF i > Len(objects) THEN <<>>
    ELSE (IF /\ IsImageXObject(objects[i])
             /\ extract_image_from_stream(objects[i], FALSE).kind = "ok"
          THEN <<extract_image_from_stream(objects[i], FALSE).image>>
          ELSE <<>>)
         \o DecodedFrom(objects, i + 1)

\* C5: for a document that loads, extraction returns Ok with exactly the
\* buffers of the image streams that decode, in the objects' order, skipping
\* every other image; it fails as a whole only when the document does not
\* load.  A build with overflow checks panics in width * height instead.
C5_SkipsUndecodableImages ==
    px_pc = "done" =>
        IF px_doc.loads
        THEN px_result.kind = "ok" /\ px_result.images = DecodedFrom(px_doc.objects, 1)
        ELSE px_result.kind = "err"

\* a 65536 x 65536 image with 4 bytes of data, after an image that decodes:
\* the extraction has panicked and returned nothing
C5_Witness ==
    /\ px_pc = "done" /\ px_doc.loads /\ px_checks
    /\ Len(px_doc.objects) = 2
    /\ px_doc.objects[2] = ImageStream(Integer(65536), Integer(65536), TRUE, 4, Name("DeviceGray"), Integer(8))
    /\ px_images # <<>>
    /\ px_result.kind = "panic"

(***************************************************************************)
(* Properties of the resize step.                                          *)
(***************************************************************************)
\* C6: the image resize returns is at most MAX_DIMENSION wide and high.  The
\* code caps the target before the minimum-dimension upscale and returns the
\* input itself on the skip path, so this fails.
C6_OutputWithinMaxDimension ==
    rs_out # NoValue => rs_out.width <= MAX_DIMENSION /\ rs_out.height <= MAX_DIMENSION

\* a 4100 x 4100 image: the target 4000 x 4000 is within 5% of the input, so
\* the input is returned as it is
C6_Witness ==
    /\ rs_in = [width |-> 4100, height |-> 4100]
    /\ ResizeTarget(4100, 4100).skip
    /\ rs_out = rs_in

\* the sides of the inputs of C19
SmallSide == 1..900

\* C19: for an input of width and height between 1 and 900 the resize is
\* not skipped, the target dimensions (scaled by 300/72, capped, raised to
\* the minimum) are strictly larger than the input's, and so are the
\* dimensions of the image returned.
C19_SmallInputsGrow ==
    (rs_out # NoValue /\ rs_in.width \in SmallSide /\ rs_in.height \in SmallSide) =>
        /\ ~ResizeTarget(rs_in.width, rs_in.height).skip
        /\ ResizeTarget(rs_in.width, rs_in.height).new_width > rs_in.width
        /\ ResizeTarget(rs_in.width, rs_in.height).new_height > rs_in.height
        /\ rs_out.width > rs_in.width /\ rs_out.height > rs_in.height

\* a 900 x 1 image, target 3750 x 300, has been returned larger
C19_Witness ==
    /\ rs_in = [width |-> 900, height |-> 1]
    /\ rs_out # NoValue
    /\ ~ResizeTarget(900, 1).skip
    /\ rs_out.width > 900 /\ rs_out.height > 1

(***************************************************************************)
(* Properties of sauvola_threshold.                                        *)
(***************************************************************************)

\* the 15x15 window centred on the pixel, clipped to the image borders
ClippedWindow(img, pixel) ==
    [x1 |-> Max(pixel[1] - 7, 0), y1 |-> Max(pixel[2] - 7, 0),
     x2 |-> Min(pixel[1] + 7, img.width - 1), y2 |-> Min(pixel[2] + 7, img.height - 1)]

PixelsIn(w) == (w.x1..w.x2) \X (w.y1..w.y2)

\* the sum of the samples (power 1) or of their squares (power 2) at the
\* pixels qs, taken one sample at a time
RECURSIVE DirectSum(_, _, _)
DirectSum(img, qs, power) ==
    IF qs = {} THEN 0
    ELSE LET q == CHOOSE one \in qs : TRUE
         IN  (IF power = 2 THEN img.px[q] * img.px[q] ELSE img.px[q])
             + DirectSum(img, qs \ {q}, power)

\* sample > mean * (1 + 0.2 * (stddev / 128 - 1)) over the reals, for the
\* mean sum / n and the standard deviation sqrt(n * sum_sq - sum^2) / n:
\* 640 n^2 sample - 512 n sum > sum * sqrt(n * sum_sq - sum^2)
ExactMargin(sample, sum, n) == 640 * n * n * sample - 512 * n * sum
ExactSquares(margin, sum, spread) ==
    ~BigLe(MulExact(NatDigits(margin, 4), NatDigits(margin, 4)),
           MulExact(MulExact(NatDigits(sum, 2), NatDigits(sum, 2)), NatDigits(spread, 4)))
ExactAbove(sample, sum, sum_sq, n) ==
    /\ ExactMargin(sample, sum, n) > 0
    /\ ExactSquares(ExactMargin(sample, sum, n), sum, n * sum_sq - sum * sum)

ExactVerdict(img, q, qs) ==
    ExactAbove(img.px[q], DirectSum(img, qs, 1), DirectSum(img, qs, 2), Cardinality(qs))

\* C7 as stated: a pixel of the output is 255 exactly when its sample is
\* above mean * (1 + 0.2 * (stddev / 128 - 1)) for the true mean and standard
\* deviation of its clipped 15x15 window, and 0 otherwise.
C7_ExactSauvola ==
    th_pc = "done" =>
        \A q \in PixelsOf(th_img) :
            th_out[q] = IF ExactVerdict(th_img, q, PixelsIn(ClippedWindow(th_img, q)))
                        THEN 255 ELSE 0

F32Verdict(sample, stats) ==
    F32Lt(F32Mul(stats.mean,
                 F32Sub(F32One, F32Mul(F32Lit(2, 10),
                                       F32Sub(F32One, F32Div(stats.std_dev, F32FromInt(128)))))),
          F32FromInt(sample))

SumsAreDirect(img, w) ==
    /\ w \in DOMAIN th_stats
    /\ th_stats[w] = WindowSums(DirectSum(img, PixelsIn(w), 1), DirectSum(img, PixelsIn(w), 2),
                                Cardinality(PixelsIn(w)))

\* C7 amended: the sums read from the two summed-area tables for the clipped
\* 15x15 window of a pixel equal the sums taken directly over the samples;
\* the mean and the standard deviation are computed from them in f64 and
\* rounded to f32; a pixel of the output is 255 exactly when its sample is
\* above mean * (1 - 0.2 * (1 - stddev / 128)) evaluated in f32, and 0
\* otherwise, so the output holds only 0 and 255.
C7_SauvolaInF32 ==
    th_pc = "done" =>
        /\ \A w \in {ClippedWindow(th_img, q) : q \in PixelsOf(th_img)} :
               SumsAreDirect(th_img, w)
        /\ \A q \in PixelsOf(th_img) :
               /\ th_out[q] \in {0, 255}
               /\ th_out[q] = 255 <=>
                      F32Verdict(th_img.px[q], th_stats[ClippedWindow(th_img, q)])

\* an image wider than the window has been thresholded to both values
C7_Witness ==
    /\ th_pc = "done"
    /\ \E q \in PixelsOf(th_img) : ClippedWindow(th_img, q) # ClippedWindow(th_img, <<0, 0>>)
    /\ \E q, r \in PixelsOf(th_img) : th_out[q] = 255 /\ th_out[r] = 0

(***************************************************************************)
(* Properties of process_pdf.                                              *)
(***************************************************************************)
\* the text without the white space at its two ends
RECURSIVE Stripped(_)
Stripped(text) ==
    IF text = <<>> THEN text
    ELSE IF Head(text) \in {" ", "\n"} THEN Stripped(Tail(text))
    ELSE IF text[Len(text)] \in {" ", "\n"} THEN Stripped(SubSeq(text, 1, Len(text) - 1))
    ELSE text

\* the non-empty texts recognised, in the order of the images, with a blank
\* line between one and the next
RECURSIVE Stitched(_, _)
Stitched(recognised, k) ==
    IF k > Len(recognised) THEN <<>>
    ELSE IF recognised[k].result.kind # "ok" \/ recognised[k].result.text = <<>>
    THEN Stitched(recognised, k + 1)
    ELSE IF \A j \in (k + 1)..Len(recognised) :
                recognised[j].result.kind # "ok" \/ recognised[j].result.text = <<>>
    THEN recognised[k].result.text
    ELSE recognised[k].result.text \o <<"\n", "\n">> \o Stitched(recognised, k + 1)

FellBack == \E k \in 1..Len(pp_calls) : pp_calls[k] # "extract_text"

\* C8: process_pdf calls the direct text extraction first; it extracts and
\* recognises images only when the trimmed direct text has length <= 10; when
\* the trimmed text is longer it returns exactly that text with confidence
\* 0.95 and no warnings and makes no other call; in the fallback the text
\* returned is the non-empty texts of the images, in extraction order, joined
\* by a blank line.
C8_DirectTextFirst ==
    /\ pp_calls # <<>> => pp_calls[1] = "extract_text"
    /\ pp_pc = "done" => pp_calls # <<>>
    /\ FellBack => pp_direct.kind = "ok" /\ StrLen(Stripped(pp_direct.text)) <= 10
                   /\ Len(Stripped(pp_direct.text)) <= 10
    /\ (pp_pc = "done" /\ pp_direct.kind = "ok" /\ StrLen(Stripped(pp_direct.text)) > 10) =>
           /\ pp_result = [kind |-> "ok", text |-> Stripped(pp_direct.text),
                           confidence |-> F32Lit(95, 100), warnings |-> <<>>]
           /\ pp_calls = <<"extract_text">>
           /\ pp_recognised = <<>> /\ px_pc = "idle"
    /\ \A k \in 1..Len(pp_recognised) :
           pp_recognised[k].image = k /\ k <= Len(px_result.images)
    /\ (pp_pc = "done" /\ FellBack /\ pp_result.kind = "ok") =>
           /\ pp_result.text = Stitched(pp_recognised, 1)
           /\ Len(pp_recognised) = Len(px_result.images)

\* a fallback after a direct text of 10 bytes has stitched two texts
C8_Witness ==
    /\ pp_pc = "done" /\ pp_result.kind = "ok"
    /\ pp_direct.kind = "ok" /\ StrLen(Stripped(pp_direct.text)) = 10
    /\ Len(pp_recognised) = 2
    /\ pp_result.text = <<"a", "\n", "\n", "b", " ", "7">>

(***************************************************************************)
(* Properties of detect_skew_angle.                                        *)
(***************************************************************************)
DarkPixels(img) == {q \in PixelsOf(img) : img.px[q] < 128}

\* the dark pixels are one run of neighbours in a single row
OneHorizontalSegment(img) ==
    /\ DarkPixels(img) # {}
    /\ \A q, r \in DarkPixels(img) :
           /\ q[2] = r[2]
           /\ \A x \in q[1]..r[1] : <<x, q[2]>> \in DarkPixels(img)

\* |angle| < 0.5 degrees, as the unit test compares: angle.abs() < 0.5_f32.to_radians()
BelowHalfDegree(angle) ==
    F32Lt(angle.abs, F32Mul(F32Div(F32FromInt(1), F32FromInt(2)),
                            F32Div([m |-> 13176795, e |-> -22], F32FromInt(180))))

\* C10: for an image whose dark pixels are one horizontal segment in one row,
\* detect_skew_angle returns an angle of absolute value below 0.5 degrees.
\* A candidate replaces the best only on a strictly greater variance and the
\* search starts at -5 degrees, so a segment that no candidate splits over
\* two rows comes out at -5 degrees.
C10_SegmentIsStraight ==
    (dk_pc = "done" /\ OneHorizontalSegment(dk_img)) => BelowHalfDegree(dk_result)

\* one dark pixel at the centre of an 8 x 4 image: every candidate has the
\* same variance, and the angle returned is -5 degrees
C10_Witness ==
    /\ dk_pc = "done"
    /\ dk_img.width = 8 /\ dk_img.height = 4
    /\ DarkPixels(dk_img) = {<<4, 2>>}
    /\ \A k \in 1..Len(dk_tried) : dk_tried[k].variance = dk_tried[1].variance
    /\ dk_best_angle = [neg |-> TRUE, abs |-> F32FromInt(5)]
    /\ ~BelowHalfDegree(dk_result)


(***************************************************************************)
(* Properties of extract_image_from_stream.                                *)
(***************************************************************************)
\* the value the stream's ColorSpace entry stands for, a reference followed
ResolvedColorSpace(stream) ==
    IF IsRef(stream.ColorSpace) THEN stream.ColorSpace.ref ELSE stream.ColorSpace

\* the N of the profile of an [/ICCBased profile] array, NoValue when the
\* colour space is no such array
IccComponents(stream) ==
    IF /\ IsArray(ResolvedColorSpace(stream))
       /\ Len(ResolvedColorSpace(stream).array) >= 2
       /\ IsRef(ResolvedColorSpace(stream).array[2])
       /\ "N" \in DOMAIN ResolvedColorSpace(stream).array[2].ref
    THEN ResolvedColorSpace(stream).array[2].ref.N
    ELSE NoValue

Decoded == ds_result # NoValue /\ ds_result.kind = "ok"

\* the samples one pixel takes in the stream
SamplesPerPixel(color_space) ==
    IF color_space = "DeviceGray" THEN 1 ELSE IF color_space = "DeviceCMYK" THEN 4 ELSE 3

\* C11: an image is decoded only if its BitsPerComponent is 8 or absent, its
\* stream holds width * height * samples-per-pixel bytes, and its colour
\* space is DeviceGray, DeviceRGB, DeviceCMYK, or ICCBased with a profile
\* of 3 components (an ICCBased entry that names no profile is let pass).
C11_DecodesOnlySupported ==
    Decoded =>
        /\ ds_stream.BitsPerComponent \in {NoValue, Integer(8), Name("eight")}
        /\ LenAtLeast(ds_stream.data_len,
                      MulExact(MulExact(AsU32(ds_stream.Width.int), AsU32(ds_stream.Height.int)),
                               NatDigits(SamplesPerPixel(ds_color_space), 1)))
        /\ \/ ds_color_space \in {"DeviceGray", "DeviceRGB", "DeviceCMYK"}
           \/ ds_color_space = "ICCBased" /\ IccComponents(ds_stream) \in {NoValue, Integer(3)}

\* an ICCBased image of 4 components, 2 by 2, of 16 bytes, is decoded
C11_Witness ==
    /\ Decoded
    /\ ds_stream.ColorSpace = IccArray(4)
    /\ ds_stream.BitsPerComponent = Integer(8)
    /\ ds_stream.Width = Integer(2) /\ ds_stream.Height = Integer(2)
    /\ ds_stream.data_len = 16
    /\ ds_result.image.channels = 3



\* C13: every buffer extract_image_from_stream returns holds exactly
\* width * height * channels samples.
C13_BufferLengthExact ==
    Decoded =>
        ds_result.image.len
            = ds_result.image.width * ds_result.image.height * ds_result.image.channels

\* a 2 by 2 DeviceGray image whose decompressed stream has 5 bytes: the
\* buffer returned keeps all 5
C13_Witness ==
    /\ Decoded
    /\ ds_color_space = "DeviceGray"
    /\ ds_stream.Width = Integer(2) /\ ds_stream.Height = Integer(2)
    /\ ds_stream.data_len = 5
    /\ ds_result.image.width = 2 /\ ds_result.image.height = 2
    /\ ds_result.image.channels = 1 /\ ds_result.image.len = 5

\* the name object the ColorSpace entry stands for: the name itself, the
\* first element of the array, both possibly behind a reference; NoValue
\* when there is none
NamedColorSpace(stream) ==
    IF IsName(ResolvedColorSpace(stream)) THEN ResolvedColorSpace(stream)
    ELSE IF FirstIsName(ResolvedColorSpace(stream))
    THEN ResolvedColorSpace(stream).array[1]
    ELSE NoValue

\* the call has returned
Resolved == ds_result # NoValue

\* C20 as stated: get_color_space returns the name the entry stands for,
\* DeviceRGB when there is none, and never an empty result.
C20_NameOrDeviceRGB ==
    Resolved =>
        /\ ds_color_space = (IF NamedColorSpace(ds_stream) = NoValue THEN "DeviceRGB"
                             ELSE NamedColorSpace(ds_stream).name)
        /\ ds_color_space # ""

\* C20, with the name decoded: get_color_space returns the lossy UTF-8
\* decoding of the name the entry stands for, DeviceRGB when there is none;
\* the result is empty only for the empty name.
C20_LossyNameOrDeviceRGB ==
    Resolved =>
        /\ ds_color_space = (IF NamedColorSpace(ds_stream) = NoValue THEN "DeviceRGB"
                             ELSE Utf8Lossy(NamedColorSpace(ds_stream).name))
        /\ ds_color_space = "" => NamedColorSpace(ds_stream) = Name("")

\* the array [/ICCBased profile] behind a reference has resolved to ICCBased
C20_Witness ==
    /\ Resolved
    /\ ds_stream.ColorSpace = [ref |-> IccArray(3)]
    /\ ds_color_space = "ICCBased"

\* the empty name has resolved to the empty string
C20_EmptyName ==
    Resolved /\ ds_stream.ColorSpace = Name("") /\ ds_color_space = ""

(***************************************************************************)
(* Properties of process_pdf and the images it skips.                      *)
(***************************************************************************)
\* the warnings of the result that process_pdf pushes for something else
\* than a skipped image: the scanned-PDF notice and one per image whose
\* recognition failed.  The result for no image at all carries a single
\* message, which is left to count for a skipped image.
OtherWarnings ==
    IF px_result.images = <<>> THEN 0
    ELSE 1 + Cardinality({k \in 1..Len(pp_recognised) : pp_recognised[k].result.kind # "ok"})

ReturnedAfterFallback ==
    pp_pc = "done" /\ FellBack /\ px_pc = "done" /\ px_result.kind = "ok"
    /\ pp_result.kind = "ok"

\* C12: the OcrResult process_pdf returns after the fallback carries, beside
\* its other warnings, one message for each image that
\* extract_images_from_pdf skipped.
C12_SkippedImagesReported ==
    ReturnedAfterFallback => Len(pp_result.warnings) - OtherWarnings >= Len(px_warned)

\* a document of one image that is decoded and recognised and one that is
\* skipped: the result's only warning is the scanned-PDF notice
C12_Witness ==
    /\ ReturnedAfterFallback
    /\ Len(px_warned) = 1 /\ Len(px_result.images) = 1
    /\ pp_recognised[1].result.kind = "ok"
    /\ pp_result.warnings = <<ScannedWarning>>


(***************************************************************************)
(* Properties of normalize::apply.                                         *)
(***************************************************************************)
SampleValues(samples) == {samples[i] : i \in 1..Len(samples)}
Smallest(S) == CHOOSE v \in S : \A w \in S : v <= w
Largest(S) == CHOOSE v \in S : \A w \in S : v >= w

\* the samples span the whole range
FullRange(samples) ==
    Smallest(SampleValues(samples)) = 0 /\ Largest(SampleValues(samples)) = 255

C14_UniformLuma ==
    /\ nz_pc = "done"
    /\ nz_in.channels = 3 /\ nz_in.samples = <<10, 10, 11>>
    /\ nz_out.samples = <<10>>


(***************************************************************************)
(* Properties of the scorer's heuristics.                                  *)
(***************************************************************************)
\* the text has been scored by the heuristics
Heuristic == cf_score # NoValue /\ StrLen(cf_text) >= 5

\* the number of characters of a word
CharsOf(w) == w[2] - w[1] + 1

RECURSIVE SumChars(_)
SumChars(ws) ==
    IF ws = {} THEN 0
    ELSE LET w == CHOOSE x \in ws : TRUE IN CharsOf(w) + SumChars(ws \ {w})

\* the table {0-1: 0.3, 2-3: 0.7, 4-8: 1.0, 9-12: 0.8, >= 13: 0.4}
AvgScoreTable(avg) ==
    IF avg \in 0..1 THEN F32_0_30
    ELSE IF avg \in 2..3 THEN F32_0_70
    ELSE IF avg \in 4..8 THEN F32One
    ELSE IF avg \in 9..12 THEN F32_0_80
    ELSE F32_0_40

\* avgScore * singlePenalty with the lengths counted in characters
WordScoreInCharacters(words) ==
    F32Mul(AvgScoreTable(SumChars(words) \div Cardinality(words)),
           Penalty(F32Ratio(Cardinality({w \in words : CharsOf(w) = 1}), Cardinality(words)),
                   F32_1_50, F32_0_50))

\* C15: the word-length sub-score of a text with a word is avgScore *
\* singlePenalty, avgScore from the table on the average word length in
\* characters, singlePenalty = 1 - min(0.5, 1.5 * r) with r the fraction of
\* the words of exactly one character; a text with no word scores 0.5.
C15_WordScoreInCharacters ==
    Heuristic =>
        analyze_word_lengths(cf_text)
            = (IF Words(cf_text) = {} THEN F32_0_50
               ELSE WordScoreInCharacters(Words(cf_text)))

\* the two words of two two-byte symbols each, of average length 2, have the
\* word score 1.0 and not 0.7
C15_Witness ==
    /\ Heuristic
    /\ cf_text = <<"U+00A7", "U+00A7", " ", "U+00A7", "U+00A7">>
    /\ analyze_word_lengths(cf_text) = F32One
    /\ WordScoreInCharacters(Words(cf_text)) = F32_0_70

\* the table {0-5: 0.5, 6-10: 0.8, 11-25: 1.0, 26-40: 0.7, > 40: 0.3}
WhitespaceTable(p) ==
    IF p \in 0..5 THEN F32_0_50
    ELSE IF p \in 6..10 THEN F32_0_80
    ELSE IF p \in 11..25 THEN F32One
    ELSE IF p \in 26..40 THEN F32_0_70
    ELSE F32_0_30

Spaces(text) == Cardinality({i \in 1..Len(text) : IsWhitespace(text[i])})

IsRun(text, i, j) == ~IsWhitespace(text[i]) /\ \A k \in i..j : text[k] = text[i]

\* the length of the longest run, 1 when there is none
LongestRun(text) ==
    Largest({1} \cup {pos[2] - pos[1] + 1 :
                         pos \in {q \in (1..Len(text)) \X (1..Len(text)) :
                                     q[1] <= q[2] /\ IsRun(text, q[1], q[2])}})

\* the table {1-3: 1.0, 4-5: 0.8, 6-10: 0.5, > 10: 0.2}
RepetitionTable(L) ==
    IF L \in 1..3 THEN F32One
    ELSE IF L \in 4..5 THEN F32_0_80
    ELSE IF L \in 6..10 THEN F32_0_50
    ELSE F32_0_20

\* C17: for every text the scan of detect_repetition ends with the length L
\* of the longest run of one non-whitespace character, 1 when nothing
\* repeats, and detect_repetition returns 1.0 for L in 1..3, 0.8 for 4..5,
\* 0.5 for 6..10 and 0.2 for L > 10.
C17_LongestRunScored ==
    cf_score # NoValue =>
        /\ RepetitionScan(cf_text, 1, 1, 1) = LongestRun(cf_text)
        /\ detect_repetition(cf_text) = RepetitionTable(LongestRun(cf_text))

\* "caf\u{e9}" and a line of six "#": the longest run is 6, the score 0.5
C17_Witness ==
    /\ cf_score # NoValue
    /\ cf_text = <<"c", "a", "f", "U+00E9", "\n", "#", "#", "#", "#", "#", "#">>
    /\ LongestRun(cf_text) = 6
    /\ detect_repetition(cf_text) = F32_0_50

OnlySpecial(text) == \A i \in 1..Len(text) : IsSpecial(text[i])

\* C18: every text of special characters only that the heuristics score has
\* a confidence strictly below 0.5.
C18_GarbledBelowHalf ==
    (Heuristic /\ OnlySpecial(cf_text)) => F32Lt(cf_score, F32_0_50)

\* five control characters, two of them in turn: 0.40 * 0 + 0.30 * 1 +
\* 0.15 * 0.5 + 0.15 * 1, which is not below 0.5
C18_Witness ==
    /\ Heuristic
    /\ cf_text = <<"U+0001", "U+0002", "U+0001", "U+0002", "U+0001">>
    /\ cf_score = ClampedWeighting(F32Zero, F32One, F32_0_50, F32One)
    /\ F32Lt(F32_0_50, cf_score)

\* the steps other than resize, and images of equal width and height
SameSizeSteps == {"grayscale", "denoise", "normalize", "sharpen", "deskew", "threshold"}
SameDimensions(a, b) == a.width = b.width /\ a.height = b.height
StepKeepsDimensions == (pl_pc \in SameSizeSteps) => SameDimensions(pl_img', pl_img)

\* C21: grayscale, denoise, normalize, sharpen, deskew (rotating or not) and
\* threshold each return an image of the width and height of their input, so
\* that only resize changes the dimensions, and the image a Minimal pipeline
\* returns has the dimensions of the image it was given.
C21_OnlyResizeChangesDimensions ==
    /\ [][StepKeepsDimensions]_vars
    /\ [](pl_pc = "returned" /\ pl_preset = "Minimal" =>
             SameDimensions(pl_result.image, pl_input))

C21_Witness ==
    /\ pl_pc = "returned" /\ pl_preset = "Aggressive"
    /\ \E i \in 1..Len(pl_result.image.ops) : pl_result.image.ops[i] = "rotate_about_center"
    /\ ~SameDimensions(pl_result.image, pl_input)

C21_MinimalReturned ==
    /\ pl_pc = "returned" /\ pl_preset = "Minimal" /\ pl_input.channels = 3
    /\ pl_result.image.width = 4100

\* C25: for every preset and input Pipeline::process returns a result and
\* never an error value: every step invoked returns Ok, since none of the
\* seven step functions has an error return.
C25_ProcessNeverFails ==
    /\ \A i \in 1..Len(pl_invoked) : pl_invoked[i].ok
    /\ pl_pc = "returned" => pl_result.kind = "ok"

C25_Witness ==
    /\ pl_pc = "returned" /\ pl_result.kind = "ok"
    /\ pl_preset = "Aggressive" /\ pl_input.width = 4100 /\ pl_input.channels = 3
    /\ Len(pl_invoked) = 7 /\ pl_result.image.channels = 1

\* the sum of the time_ms of recorded steps, and the number of steps of a preset
RECURSIVE SumTimeMs(_)
SumTimeMs(steps) ==
    IF steps = <<>> THEN 0 ELSE Head(steps).time_ms + SumTimeMs(Tail(steps))
StepCount(p) ==
    CASE p = "None" -> 0 [] p = "Minimal" -> 1 [] p = "Default" -> 4 [] p = "Aggressive" -> 7

\* C26: in every result total_time_ms is at least the sum of the time_ms of
\* the recorded steps, and the number of recorded steps is 0, 1, 4 or 7 for
\* None, Minimal, Default and Aggressive.
C26_TotalCoversSteps ==
    (pl_pc = "returned" /\ pl_result.kind = "ok") =>
        /\ pl_result.total_time_ms >= SumTimeMs(pl_result.steps)
        /\ Len(pl_result.steps) = StepCount(pl_preset)

C26_Witness ==
    /\ pl_pc = "returned" /\ pl_result.kind = "ok" /\ pl_preset = "Aggressive"
    /\ Len(pl_result.steps) = 7
    /\ SumTimeMs(pl_result.steps) > 0
    /\ pl_result.total_time_ms > SumTimeMs(pl_result.steps)

\* C27: the score is exactly 0.0 if and only if the text is empty: every
\* non-empty text scores strictly above 0, namely 0.5 when it is shorter than
\* five bytes and at least 0.12 from the weighted heuristics otherwise.
C27_ZeroOnlyForEmpty ==
    cf_score # NoValue =>
        /\ cf_score = F32Zero <=> cf_text = <<>>
        /\ cf_text # <<>> => F32Lt(F32Zero, cf_score)
        /\ (cf_text # <<>> /\ StrLen(cf_text) < 5) => cf_score = F32_0_50
        /\ StrLen(cf_text) >= 5 => F32Le(F32Lit(12, 100), cf_score)

C27_Witness ==
    /\ cf_score # NoValue /\ cf_text \in GarbledTexts
    /\ F32Lt(cf_score, F32Lit(13, 100))

C27_BlankScored ==
    /\ cf_score = F32_0_50 /\ cf_text = <<" ">>

\* the largest variance among the candidates tried, and the first candidate
\* in search order that has it
AllLight(img) == \A q \in PixelsOf(img) : img.px[q] >= 128
IsLargestVariance(v) ==
    /\ \E k \in 1..Len(dk_tried) : dk_tried[k].variance = v
    /\ \A k \in 1..Len(dk_tried) : F32Le(dk_tried[k].variance, v)
FirstWith(v) ==
    dk_tried[CHOOSE k \in 1..Len(dk_tried) :
                /\ dk_tried[k].variance = v
                /\ \A j \in 1..(k - 1) : dk_tried[j].variance # v].angle
BestReplacedOnlyByGreater ==
    (dk_best_angle' # dk_best_angle \/ dk_best_variance' # dk_best_variance) =>
        F32Lt(dk_best_variance, dk_best_variance')

\* C30: for an image without a dark pixel every candidate has projection
\* variance 0, detect_skew_angle returns 0 and deskew returns the gray image
\* unrotated, every sample unchanged.  The best candidate is replaced only by
\* one of strictly greater variance, so the angle returned is that of the
\* first candidate in search order among those of the largest variance.
C30_LightImageUnrotated ==
    /\ [](AllLight(dk_img) =>
            /\ \A k \in 1..Len(dk_tried) : dk_tried[k].variance = F32Zero
            /\ dk_result # NoValue => dk_result.abs = F32Zero
            /\ dk_out # NoValue => dk_out = [kind |-> "gray", image |-> dk_img])
    /\ [](dk_result # NoValue =>
            \A v \in {dk_tried[k].variance : k \in 1..Len(dk_tried)} :
                (IsLargestVariance(v) /\ v # F32Zero) =>
                    /\ dk_best_angle = FirstWith(v)
                    /\ dk_result = to_radians(FirstWith(v)))
    /\ [][BestReplacedOnlyByGreater]_vars

C30_Witness ==
    /\ dk_pc = "returned" /\ AllLight(dk_img)
    /\ \E q \in PixelsOf(dk_img) : dk_img.px[q] = 128
    /\ Len(dk_tried) > 21
    /\ dk_out = [kind |-> "gray", image |-> dk_img]

C30_TieKeepsFirst ==
    /\ dk_pc = "returned" /\ dk_out.kind = "rotated"
    /\ \E j, k \in 1..Len(dk_tried) :
          /\ j < k /\ dk_tried[j].variance = dk_tried[k].variance
          /\ IsLargestVariance(dk_tried[j].variance)
          /\ dk_best_angle = dk_tried[j].angle

(***************************************************************************)
(* Properties of the server.                                               *)
(***************************************************************************)
\* s is the name in some letter case
SameIgnoringCase(s, name) ==
    /\ Len(s) = Len(name)
    /\ \A i \in 1..Len(s) :
          \/ s[i] = name[i]
          \/ \E k \in 1..Len(UpperCase) : UpperCase[k] = s[i] /\ LowerCase[k] = name[i]
NamesPreset(value, p) == SameIgnoringCase(value, CharsOfName(PresetAsStr(p)))
UnknownPreset(req) ==
    req.preprocess.given /\ \A p \in Presets : ~NamesPreset(req.preprocess.value, p)
\* the request came with a file within the size limit and its preset has
\* been determined
PresetDetermined ==
    /\ sv_request # NoValue /\ sv_engine # ""
    /\ sv_request.multipart_ok /\ sv_request.file.present /\ ~sv_request.file.too_large
    /\ sv_pc \notin {"multipart", "preset"}
InvalidRequestBeforeAnyCall ==
    /\ sv_pc = "responded"
    /\ sv_response = [kind |-> "err", error |-> "InvalidRequest"]
    /\ sv_preset = "" /\ sv_calls = <<>>

C22_UpperCaseSelects ==
    /\ sv_pc = "responded" /\ sv_response.kind = "ok"
    /\ sv_request.preprocess.value = <<"N", "O", "N", "E">> /\ sv_preset = "None"

C22_MissingFileFirst ==
    /\ sv_pc = "responded" /\ UnknownPreset(sv_request)
    /\ sv_response = [kind |-> "err", error |-> "MissingFile"]

\* the upload is a PDF by its content type or by its first bytes
UploadIsPdf(req) == req.file.content_type = "application/pdf" \/ req.file.magic = "%PDF-"
Called(name) == \E i \in 1..Len(sv_calls) : sv_calls[i].call = name
Succeeded == sv_pc = "responded" /\ sv_response.kind = "ok"

\* C23: a successful response carries preprocessing statistics exactly when
\* the upload is not a PDF and the preset is not None; for a PDF the
\* pipeline is never run, whatever the preset, and the engine is called on
\* the file, not on a preprocessed image.
C23_StatsOnlyForPreprocessedImages ==
    /\ Succeeded =>
          /\ sv_response.preprocessing # NoValue
                <=> (~UploadIsPdf(sv_request) /\ sv_preset # "None")
          /\ sv_response.preprocessing # NoValue
                => sv_response.preprocessing.preset = PresetAsStr(sv_preset)
          /\ IF UploadIsPdf(sv_request)
             THEN Called("process") /\ ~Called("process_image")
             ELSE Called("process_image") /\ ~Called("process") /\ Called("Pipeline::process")
    /\ (sv_request # NoValue /\ UploadIsPdf(sv_request)) =>
          /\ ~Called("Pipeline::process")
          /\ ~Called("load_from_memory")
          /\ ~Called("process_image")

C23_Witness ==
    /\ Succeeded /\ sv_request.file.content_type = "image/png"
    /\ sv_request.file.magic = "%PDF-" /\ sv_preset = "Aggressive"
    /\ sv_response.preprocessing = NoValue
    /\ sv_calls = <<CallOf("tempfile"), EngineCall("process")>>

C23_ImageWithStats ==
    /\ Succeeded /\ ~UploadIsPdf(sv_request) /\ sv_preset = "Minimal"
    /\ sv_response.preprocessing = [preset |-> "minimal"]

C23_ImageWithoutStats ==
    /\ Succeeded /\ ~UploadIsPdf(sv_request) /\ sv_preset = "None"
    /\ Called("Pipeline::process") /\ sv_response.preprocessing = NoValue

RegistryCreated == sv_registry # NoValue /\ sv_registry.kind = "ok"
Listed(name) == \E i \in 1..Len(RegistryList(sv_registry)) : RegistryList(sv_registry)[i] = name
EngineCalls == {sv_calls[i] : i \in {k \in 1..Len(sv_calls) : sv_calls[k].engine # ""}}

\* C24: when EngineRegistry::new succeeds the default engine is the first
\* engine initialised (ocrs when it is compiled in), is listed, and
\* default() returns it; when no engine is compiled in or an engine fails to
\* initialise, new fails and the server never serves.  A request to
\* /ocr/:engine with a name that is not in the registry fails with
\* InvalidRequest, and the engine field of a successful response names the
\* engine that processed the request.
C24_DefaultEngineIsFirst ==
    /\ RegistryCreated =>
          /\ sv_registry.default_engine = RegistryList(sv_registry)[1]
          /\ "ocrs" \in sv_env.features => sv_registry.default_engine = "ocrs"
          /\ Listed(sv_registry.default_engine)
          /\ RegistryDefault(sv_registry) = [engine |-> sv_registry.default_engine]
          /\ \A name \in sv_env.features : Listed(name)
    /\ (sv_registry # NoValue
        /\ (sv_env.features = {} \/ \E name \in sv_env.features : name \notin sv_env.init_ok))
          => (sv_registry.kind = "err" /\ sv_pc = "exited" /\ sv_request = NoValue)
    /\ (sv_pc = "responded" /\ sv_request.route = "/ocr/:engine"
        /\ ~Listed(sv_request.engine_name))
          => (sv_response = [kind |-> "err", error |-> "InvalidRequest"] /\ sv_calls = <<>>)
    /\ Succeeded =>
          /\ EngineCalls # {}
          /\ \A c \in EngineCalls : c.engine = sv_response.engine
          /\ Listed(sv_response.engine)
          /\ sv_request.route = "/ocr" => sv_response.engine = sv_registry.default_engine
          /\ sv_request.route = "/ocr/:engine" => sv_response.engine = sv_request.engine_name

C24_Witness ==
    /\ Succeeded /\ sv_request.route = "/ocr"
    /\ RegistryList(sv_registry) = <<"ocrs", "leptess">>
    /\ sv_response.engine = "ocrs"

C24_UnknownEngine ==
    /\ sv_pc = "responded" /\ sv_request.engine_name = "OCRS"
    /\ sv_response = [kind |-> "err", error |-> "InvalidRequest"]
    /\ Listed("ocrs")

C24_InitFails ==
    /\ sv_pc = "exited" /\ sv_env.features = {"ocrs", "leptess"} /\ sv_env.init_ok = {"ocrs"}

(***************************************************************************)
(* Properties of the model cache.                                          *)
(***************************************************************************)
Other(p) == CHOOSE q \in Procs : q # p
DownloadFailed(p) ==
    /\ dl_proc[p].pc = "failed"
    /\ dl_proc[p].error.step \in {"request", "create", "read", "write"}

\* C28: a model file is treated as cached only if an earlier download
\* completed: when a download fails, at the request, while the body is read
\* or while the file is written, no file is left at the cache path, so that
\* a later initialisation finds no file there while no download is running
\* unless it is a complete one.
C28_FailedDownloadLeavesNoFile ==
    /\ \A p \in Procs :
          (DownloadFailed(p) /\ dl_proc[p].error.file \notin dl_proc[Other(p)].created)
              => ~dl_fs[dl_proc[p].error.file].exists
    /\ \A p \in Procs : \A c \in dl_proc[p].cached :
          c.writers = {} => Complete(c.blocks)

\* the download of the first process failed while the body was read and
\* left an empty file, which the second process, started later, took as
\* cached and passed to load_file
C28_Witness ==
    /\ dl_proc[1].pc = "failed"
    /\ dl_proc[1].error = [step |-> "read", file |-> ModelFiles[1]]
    /\ dl_fs[ModelFiles[1]] = [exists |-> TRUE, blocks |-> <<>>]
    /\ dl_proc[2].created = {ModelFiles[2]}
    /\ [file |-> ModelFiles[1], blocks |-> <<>>, writers |-> {}] \in dl_proc[2].cached
    /\ dl_proc[2].pc = "failed"
    /\ dl_proc[2].loaded = <<[file |-> ModelFiles[1], blocks |-> <<>>, writers |-> {}]>>

\* a write error after the first block leaves a truncated file
C28_TruncatedLeft ==
    /\ dl_proc[1].pc = "failed"
    /\ dl_proc[1].error = [step |-> "write", file |-> ModelFiles[1]]
    /\ dl_proc[2].created = {}
    /\ dl_fs[ModelFiles[1]] = [exists |-> TRUE, blocks |-> <<"data">>]

\* C29: when two processes initialise the engine concurrently with an empty
\* cache, every file passed to Model::load_file is complete: no process
\* loads a file that another has created and not finished writing.
C29_LoadsOnlyCompleteFiles ==
    \A p \in Procs : \A i \in 1..Len(dl_proc[p].loaded) :
        Complete(dl_proc[p].loaded[i].blocks)

\* without any error in either process, the second finds the detection
\* model that the first has created and not written, downloads the
\* recognition model, and loads the empty detection model while the first
\* is still writing
C29_Witness ==
    /\ dl_proc[1].pc = "write" /\ dl_proc[1].k = 1 /\ dl_proc[1].error = NoValue
    /\ dl_proc[1].offset = 0
    /\ dl_proc[2].created = {ModelFiles[2]}
    /\ Len(dl_proc[2].loaded) = 1
    /\ dl_proc[2].loaded[1] = [file |-> ModelFiles[1], blocks |-> <<>>, writers |-> {1}]

====
